---- MODULE Spec2Model ----
(***************************************************************************)
(* halfempty: the speculative bisection tree and its driver (tree.c), the   *)
(* bisect and zero strategies (bisect.c, zero.c), the worker pool and the   *)
(* cleanup (gc) pool.                                                       *)
(*                                                                          *)
(* Node 1 is `tree` (the root), node 2 is `retired`.  A task is identified  *)
(* with the GNode that carries it; task[n].status = "NULL" is a node whose  *)
(* data pointer is NULL (an empty placeholder).  0 stands for a NULL node.  *)
(*                                                                          *)
(* Granularity: a thread's step is a run of its code in which every value   *)
(* it reads from another thread is final (a Success, Failure or Discarded   *)
(* status, the data of a file) except at most one, and in which it takes at *)
(* most one lock.                                                           *)
(***************************************************************************)
EXTENDS Integers, Sequences, FiniteSets, TLC

\* ---------------------------------------------------------------- flags
\* Command line knobs (flags.c, zero.c), set to small values.
kProcessThreads == 2
kCleanupThreads == 1
kMaxTreeDepth == 2
kKillFailedWorkers == TRUE
kKillFailedWorkersSignal == 15
kZeroCharacter == 0

\* Values of --zero-char explored: the default and a byte of the input files.
ZeroChars == { kZeroCharacter, 2 }

\* Largest --max-queue value explored.
MaxQueue == 1

\* Longest input file explored; the file of length n holds the bytes 1..n.
MaxLen == 2

Inputs == { [ i \in 1..n |-> i ] : n \in 0..MaxLen }

\* Test programs explored: "any" exits 0 on every file, "has2" exits 0 on the
\* files that hold a byte 2.
Predicates == { "any", "has2" }

kStrategyList == { "bisect", "zero" }

tree == 1
retired == 2

Workers == 1..kProcessThreads
Cleaners == 1..kCleanupThreads

VARIABLES
    cfg,        \* kMaxUnprocessed, kVerifyInput, strategy, input file, test program
    gnode,      \* GNode links: parent and children of every node
    task,       \* task_t of every node
    treelock,   \* holder of treelock
    threadpool, \* unprocessed queue of the worker pool (nodes)
    cleanup,    \* unprocessed queue of the cleanup pool (tasks)
    worker,     \* position of every worker thread in process_execute_jobs
    gc,         \* position of every cleanup thread in cleanup_orphaned_tasks
    drv,        \* position and locals of build_bisection_tree
    outfd       \* *outfd: the task whose fd was dup()ed, 0 before

vars == <<cfg, gnode, task, treelock, threadpool, cleanup, worker, gc, drv, outfd>>

\* ---------------------------------------------------------------- task.h
NullTask ==
    [ fd |-> -1, size |-> 0, data |-> <<>>, offset |-> 0, chunksize |-> 0,
      status |-> "NULL", mutex |-> "free", timer |-> FALSE, childpid |-> 0,
      child |-> "none", watchdog |-> "none", alarm |-> <<>> ]

NullNode == [ parent |-> 0, children |-> <<>> ]

HasTask(n) == task[n].status # "NULL"

\* ---------------------------------------------------------------- GNode
G_NODE_IS_LEAF(n) == gnode[n].children = <<>>
G_NODE_IS_ROOT(n) == gnode[n].parent = 0

\* g_node_nth_child(n, i): 0 stands for NULL.
g_node_nth_child(n, i) ==
    IF i + 1 <= Len(gnode[n].children) THEN gnode[n].children[i + 1] ELSE 0

\* tree.h: the success child is child TRUE (1), the failure child FALSE (0).
g_node_success(n) == g_node_nth_child(n, 1)
g_node_failure(n) == g_node_nth_child(n, 0)

\* g_node_unlink in the links g.
g_node_unlink(g, n) ==
    [ g EXCEPT ![g[n].parent].children = SelectSeq(@, LAMBDA x : x # n),
               ![n].parent = 0 ]

\* g_node_insert in the links g: before the child at position, or last when
\* position is negative or there is no such child.
g_node_insert(g, parent, position, n) ==
    [ g EXCEPT ![parent].children =
                   IF position < 0 \/ position >= Len(@) THEN Append(@, n)
                   ELSE SubSeq(@, 1, position) \o <<n>> \o SubSeq(@, position + 1, Len(@)),
               ![n].parent = parent ]

\* G_PRE_ORDER traversal of the subtree at n in the links g, as the sequence
\* of visited nodes.
RECURSIVE NodePreOrder(_, _), ChildrenPreOrder(_, _)
NodePreOrder(g, n) ==
    IF n = 0 THEN <<>> ELSE <<n>> \o ChildrenPreOrder(g, g[n].children)

ChildrenPreOrder(g, s) ==
    IF s = <<>> THEN <<>>
    ELSE NodePreOrder(g, Head(s)) \o ChildrenPreOrder(g, Tail(s))

RECURSIVE g_node_max_height(_), ChildrenHeight(_)
g_node_max_height(n) == IF n = 0 THEN 0 ELSE 1 + ChildrenHeight(gnode[n].children)

ChildrenHeight(s) ==
    IF s = <<>> THEN 0
    ELSE LET h == g_node_max_height(Head(s))
             r == ChildrenHeight(Tail(s))
         IN IF h > r THEN h ELSE r

\* g_node_is_ancestor(a, d): a is a proper ancestor of d.
RECURSIVE g_node_is_ancestor(_, _)
g_node_is_ancestor(a, d) ==
    IF d = 0 \/ gnode[d].parent = 0 THEN FALSE
    ELSE gnode[d].parent = a \/ g_node_is_ancestor(a, gnode[d].parent)

SelectTasks(s) == SelectSeq(s, HasTask)

\* abort_task_helper over a traversal: every node with data is pushed.
AbortTasks(g, root) == SelectTasks(NodePreOrder(g, root))

\* ---------------------------------------------------------------- test program
\* What waitid reports of the test program run on data d when no signal is
\* sent to it.  "any" accepts every file.  "has2" accepts the files that hold
\* a byte 2; it crashes (core dump) on the empty file and exits with code 3 on
\* every other file.  "zero1" accepts the file <<1, 2, 3>>, that file with its
\* first byte zero, and the latter without its second byte; it exits with
\* code 1 on every other file.
Program(p, d) ==
    CASE p = "any"  -> [ si_code |-> "CLD_EXITED", si_status |-> 0 ]
      [] p = "zero1" ->
           IF d \in { <<1, 2, 3>>, <<0, 2, 3>>, <<0, 3>> }
           THEN [ si_code |-> "CLD_EXITED", si_status |-> 0 ]
           ELSE [ si_code |-> "CLD_EXITED", si_status |-> 1 ]
      [] p = "has2" ->
           IF \E i \in DOMAIN d : d[i] = 2
           THEN [ si_code |-> "CLD_EXITED", si_status |-> 0 ]
           ELSE IF d = <<>>
           THEN [ si_code |-> "CLD_DUMPED", si_status |-> 11 ]
           ELSE [ si_code |-> "CLD_EXITED", si_status |-> 3 ]

\* The test program handles SIGALRM (as src/test/timeout.sh does with trap) and
\* goes on; otherwise SIGALRM ends it.
Traps(p) == p = "has2"

\* Exit code 0 of the test program on data d.
Pred(p, d) == Program(p, d) = [ si_code |-> "CLD_EXITED", si_status |-> 0 ]

\* ---------------------------------------------------------------- bisect.c
\* BisectState without the test of line 137: the offset advances after a
\* success too.
BisectStateAdvances(parent, status) ==
    IF parent.offset + parent.chunksize > parent.size
    THEN [ offset |-> 0, chunksize |-> parent.chunksize \div 2 ]
    ELSE [ offset |-> parent.offset + parent.chunksize,
           chunksize |-> parent.chunksize ]

\* Lines 129-149: the child's { offset, chunksize } from the parent's, with the
\* parent's status as the strategy read it.
BisectState(parent, status) ==
    IF parent.offset + parent.chunksize > parent.size
    THEN [ offset |-> 0, chunksize |-> parent.chunksize \div 2 ]
    ELSE IF status # "Success"
         THEN [ offset |-> parent.offset + parent.chunksize,
                chunksize |-> parent.chunksize ]
         ELSE [ offset |-> parent.offset, chunksize |-> parent.chunksize ]

\* BisectData whose second sendfile starts at offset: the chunk is not removed.
BisectDataKeepsChunk(source, offset, chunksize) ==
    SubSeq(source.data, 1, offset)
        \o ( IF offset + chunksize <= source.size
             THEN SubSeq(source.data, offset + 1, Len(source.data))
             ELSE <<>> )

\* Lines 200-225: the child's data, source with the chunk removed.
BisectData(source, offset, chunksize) ==
    SubSeq(source.data, 1, offset)
        \o ( IF offset + chunksize <= source.size
             THEN SubSeq(source.data, offset + chunksize + 1, source.size)
             ELSE <<>> )

BisectSize(source, offset, chunksize) ==
    offset + ( IF offset + chunksize <= source.size
               THEN source.size - chunksize - offset
               ELSE 0 )

\* ---------------------------------------------------------------- zero.c
\* ZeroState with a new cycle started at the full size instead of the half of
\* line 111.
ZeroStateRestarts(parent) ==
    IF parent.offset + parent.chunksize > parent.size
    THEN [ offset |-> 0, chunksize |-> parent.size ]
    ELSE [ offset |-> parent.offset + parent.chunksize,
           chunksize |-> parent.chunksize ]

\* Lines 111-124: the child's { offset, chunksize }; the offset always advances.
ZeroState(parent) ==
    IF parent.offset + parent.chunksize > parent.size
    THEN [ offset |-> 0, chunksize |-> parent.chunksize \div 2 ]
    ELSE [ offset |-> parent.offset + parent.chunksize,
           chunksize |-> parent.chunksize ]

\* Lines 150-159 and 207-218: the next offset, or the next cycle when it runs
\* past the parent's size.  A chunksize of 0 is "final cycle complete".
ZeroAdvance(offset, chunksize, psize) ==
    IF offset + chunksize > psize
    THEN [ offset |-> 0, chunksize |-> chunksize \div 2 ]
    ELSE [ offset |-> offset + chunksize, chunksize |-> chunksize ]

\* Lines 146-160: skip the offsets that lie inside the chunk b of a successful
\* ancestor.
RECURSIVE ZeroAdjust(_, _, _, _)
ZeroAdjust(offset, chunksize, b, psize) ==
    IF chunksize # 0 /\ offset >= b.offset
                     /\ offset + chunksize <= b.offset + b.chunksize
    THEN LET a == ZeroAdvance(offset, chunksize, psize)
         IN ZeroAdjust(a.offset, a.chunksize, b, psize)
    ELSE [ offset |-> offset, chunksize |-> chunksize ]

\* Line 51: --zero-char sets kZeroCharacter; a configuration without the
\* option has the default of line 48.
ZeroChar ==
    IF "kZeroCharacter" \in DOMAIN cfg THEN cfg.kZeroCharacter ELSE kZeroCharacter

\* Lines 187-201: the chunk as pread sees it (b1 is zero-filled) is all
\* kZeroCharacter.
ZeroAlready(source, offset, chunksize) ==
    \A i \in (offset + 1)..(offset + chunksize) :
        (IF i <= source.size THEN source.data[i] ELSE 0) = ZeroChar

Min(a, b) == IF a < b THEN a ELSE b

\* ZeroData without the sendfile of lines 259-268: the bytes after the chunk
\* are not copied.
ZeroDataDropsTail(source, offset, chunksize) ==
    SubSeq(source.data, 1, offset)
        \o [ i \in 1..(Min(source.size, offset + chunksize) - offset) |-> ZeroChar ]

\* ZeroData with the ftruncate of line 250 for every kZeroCharacter: the chunk
\* is filled with nuls.
ZeroDataTruncates(source, offset, chunksize) ==
    SubSeq(source.data, 1, offset)
        \o [ i \in 1..(Min(source.size, offset + chunksize) - offset) |-> 0 ]
        \o ( IF offset + chunksize <= source.size
             THEN SubSeq(source.data, offset + chunksize + 1, source.size)
             ELSE <<>> )

\* Lines 229-265: the child's data, source with the chunk overwritten.
ZeroData(source, offset, chunksize) ==
    SubSeq(source.data, 1, offset)
        \o [ i \in 1..(Min(source.size, offset + chunksize) - offset) |-> ZeroChar ]
        \o ( IF offset + chunksize <= source.size
             THEN SubSeq(source.data, offset + chunksize + 1, source.size)
             ELSE <<>> )

\* ---------------------------------------------------------------- tree.c helpers
\* root_path_finalized
RECURSIVE root_path_finalized(_)
root_path_finalized(n) ==
    IF G_NODE_IS_ROOT(n) THEN TRUE
    ELSE /\ task[n].status \in {"Success", "Failure"}
         /\ root_path_finalized(gnode[n].parent)

\* find_finalized_node, the loop of lines 659-672: a leaf ends the walk before
\* its status is looked at.
RECURSIVE FindFinalizedFrom(_, _, _)
FindFinalizedFrom(n, final, success) ==
    IF G_NODE_IS_LEAF(n) \/ ~HasTask(n) THEN final
    ELSE IF task[n].status = "Success"
         THEN FindFinalizedFrom(g_node_success(n), n, success)
         ELSE IF task[n].status = "Failure"
              THEN FindFinalizedFrom(g_node_failure(n),
                                     IF success THEN final ELSE n, success)
              ELSE final

find_finalized_node(root, success) ==
    IF ~HasTask(root) THEN 0
    ELSE FindFinalizedFrom(root,
            IF task[root].status = "Success" \/ (~success /\ task[root].status = "Failure")
            THEN root ELSE 0,
            success)

\* ---------------------------------------------------------------- initial state
IdleDriver ==
    [ pc |-> "start", current |-> 0, node |-> 0, place |-> 0, slot |-> FALSE,
      offset |-> 0, chunksize |-> 0, source |-> 0, finalsuccess |-> 0,
      child |-> NullTask, signal |-> FALSE ]

\* build_bisection_tree lines 91-112 and 133-138: both pools exist and are
\* empty, both trees are single nodes, the root task holds the input; without
\* kVerifyInput its result is faked before any thread can see it.
Configs(queues, times) ==
    [ input : Inputs, pred : Predicates, strategy : kStrategyList,
      kMaxUnprocessed : queues, kVerifyInput : BOOLEAN, kMaxProcessTime : times ]

Construct ==
    /\ gnode = << NullNode, NullNode >>
    /\ task = << [ NullTask EXCEPT !.fd = 3, !.size = Len(cfg.input),
                                   !.data = cfg.input,
                                   !.status = IF cfg.kVerifyInput THEN "Pending" ELSE "Success",
                                   !.timer = ~cfg.kVerifyInput ],
                 NullTask >>
    /\ treelock = "free"
    /\ threadpool = <<>>
    /\ cleanup = <<>>
    /\ worker = [ w \in Workers |-> [ pc |-> "idle", node |-> 0, root |-> 0 ] ]
    /\ gc = [ g \in Cleaners |-> [ pc |-> "idle", task |-> 0 ] ]
    /\ drv = [ IdleDriver EXCEPT !.pc = IF cfg.kVerifyInput THEN "verify" ELSE "start" ]
    /\ outfd = 0

\* The default: no timeout (flags.c line 74).
Init == cfg \in Configs(0..MaxQueue, {0}) /\ Construct

\* ---------------------------------------------------------------- subprocess
Pid(n) == n
NewFd(n) == n + 2

\* process_execute_jobs lines 439-464 on node n: the task is locked, gets its
\* timer and its child process, and with a timeout the child gets its watchdog
\* thread (proc.c lines 271-281).
StartTask(n) ==
    [ task EXCEPT ![n] = [ @ EXCEPT !.mutex = "worker", !.timer = TRUE,
                                    !.childpid = Pid(n), !.child = "running",
                                    !.watchdog = IF cfg.kMaxProcessTime > 0
                                                 THEN "armed" ELSE "none" ] ]

\* submit_data_subprocess lines 293-311: what waitid reports when the child of
\* task n has ended: killed by the signal of the cleanup thread, killed by the
\* watchdog's SIGALRM, or ended as the test program ends on the task's data.
waitid(n) ==
    IF task[n].child = "killed"
    THEN [ si_code |-> "CLD_KILLED", si_status |-> kKillFailedWorkersSignal ]
    ELSE IF task[n].child = "alarmed" /\ ~Traps(cfg.pred)
    THEN [ si_code |-> "CLD_KILLED", si_status |-> 14 ]
    ELSE Program(cfg.pred, task[n].data)

\* submit_data_subprocess lines 313-335: the exit code, or -1 for a core dump
\* or a signal.
Result(n) ==
    IF waitid(n).si_code = "CLD_EXITED" THEN waitid(n).si_status ELSE -1

\* The child of task n has not ended.
Alive(t) == t.child = "running" \/ (t.child = "alarmed" /\ Traps(cfg.pred))

\* proc.c lines 307-311 with 151-213: the thread that ran the child signals the
\* watchdog and joins it.  The signal is lost when the watchdog is between
\* its waitid and its g_cond_wait_until: it then sleeps to the deadline and
\* sends SIGALRM to the group of the child that has ended.
LateAlarms(n) == IF task[n].watchdog = "armed" THEN BOOLEAN ELSE {FALSE}

g_thread_join(tk, n, late) ==
    IF late THEN [ tk EXCEPT ![n].alarm = Append(@, "pgrp") ] ELSE tk

\* FinishTask after a waitid without WNOWAIT (proc.c line 296): the worker has
\* reaped the child itself.
FinishTaskReaps(n) ==
    [ task EXCEPT ![n] = [ @ EXCEPT
          !.status = IF Result(n) = 0 THEN "Success" ELSE "Failure",
          !.mutex = "free",
          !.child = "reaped",
          !.watchdog = IF @ = "armed" THEN "done" ELSE @ ] ]

\* FinishTask whose switch sends only result 1 to the failure case.
FinishTaskOnlyOneFails(n) ==
    [ task EXCEPT ![n] = [ @ EXCEPT
          !.status = IF Result(n) = 1 THEN "Failure" ELSE "Success",
          !.mutex = "free",
          !.child = "zombie",
          !.watchdog = IF @ = "armed" THEN "done" ELSE @ ] ]

\* FinishTask that keeps the mutex of a successful task (the unlock of line
\* 483 moved behind the sweep).
FinishTaskKeepsMutex(n) ==
    [ task EXCEPT ![n] = [ @ EXCEPT
          !.status = IF Result(n) = 0 THEN "Success" ELSE "Failure",
          !.mutex = IF Result(n) = 0 THEN @ ELSE "free",
          !.child = "zombie",
          !.watchdog = IF @ = "armed" THEN "done" ELSE @ ] ]

\* process_execute_jobs lines 480-521: the status is recorded and the task
\* unlocked; the child stays a zombie (waitid with WNOWAIT).
FinishTask(n) ==
    [ task EXCEPT ![n] = [ @ EXCEPT
          !.status = IF Result(n) = 0 THEN "Success" ELSE "Failure",
          !.mutex = "free",
          !.child = "zombie",
          !.watchdog = IF @ = "armed" THEN "done" ELSE @ ] ]

\* ---------------------------------------------------------------- driver
\* The node a strategy's result will be attached to: the placeholder, or the
\* first of the two nodes a leaf is given.
NewNode == IF drv.place # 0 THEN drv.place ELSE Len(gnode) + 1

g_thread_pool_unprocessed == Len(threadpool)

\* Lines 114-116: with kVerifyInput the driver's own thread runs
\* process_execute_jobs on the root.
DriverVerify ==
    /\ drv.pc = "verify"
    /\ task' = StartTask(tree)
    /\ drv' = [ drv EXCEPT !.pc = "start" ]
    /\ UNCHANGED <<cfg, gnode, treelock, threadpool, cleanup, worker, gc, outfd>>

\* DriverStart without the return of lines 126-127: the driver goes on after a
\* failed verification.
DriverStartIgnoresFailure ==
    /\ drv.pc = "start"
    /\ LET verified == IF cfg.kVerifyInput THEN FinishTask(tree) ELSE task
           ok == verified[tree].status = "Success"
       IN /\ \E late \in LateAlarms(tree) :
                task' = [ g_thread_join(verified, tree, late) EXCEPT
                             ![tree].chunksize = task[tree].size ]
          /\ cleanup' = IF ok THEN cleanup ELSE Append(cleanup, tree)
          /\ drv' = [ drv EXCEPT !.pc = "top" ]
    /\ UNCHANGED <<cfg, gnode, treelock, threadpool, worker, gc, outfd>>

\* Lines 116-144: the end of the verification (a failed root is pushed to the
\* cleanup pool and the driver returns false), then callback(tree) initializes
\* the root's strategy state (bisect.c lines 106-116, zero.c lines 82-94).
DriverStart ==
    /\ drv.pc = "start"
    /\ LET verified == IF cfg.kVerifyInput THEN FinishTask(tree) ELSE task
           ok == verified[tree].status = "Success"
       IN /\ \E late \in LateAlarms(tree) :
                task' = [ g_thread_join(verified, tree, late) EXCEPT
                             ![tree].chunksize = IF ok THEN task[tree].size ELSE 0 ]
          /\ cleanup' = IF ok THEN cleanup ELSE Append(cleanup, tree)
          /\ drv' = [ drv EXCEPT !.pc = IF ok THEN "top" ELSE "failed" ]
    /\ UNCHANGED <<cfg, gnode, treelock, threadpool, worker, gc, outfd>>

\* DriverLock with the comparison of line 155 off by one.
DriverLockLate ==
    /\ drv.pc \in {"top", "wait"}
    /\ treelock = "free"
    /\ IF g_thread_pool_unprocessed > cfg.kMaxUnprocessed + 1
       THEN /\ treelock' = "free"
            /\ drv' = [ drv EXCEPT !.pc = "wait", !.signal = FALSE ]
       ELSE /\ treelock' = "driver"
            /\ drv' = [ drv EXCEPT !.current = tree, !.signal = FALSE,
                          !.pc = IF g_node_max_height(tree) > kMaxTreeDepth
                                 THEN "collapse" ELSE "walk" ]
    /\ UNCHANGED <<cfg, gnode, task, threadpool, cleanup, worker, gc, outfd>>

\* DriverLock without the wait of lines 155-158.
DriverLockNoWait ==
    /\ drv.pc \in {"top", "wait"}
    /\ treelock = "free"
    /\ treelock' = "driver"
    /\ drv' = [ drv EXCEPT !.current = tree, !.signal = FALSE,
                  !.pc = IF g_node_max_height(tree) > kMaxTreeDepth
                         THEN "collapse" ELSE "walk" ]
    /\ UNCHANGED <<cfg, gnode, task, threadpool, cleanup, worker, gc, outfd>>

\* DriverLock whose wait of lines 155-158 has no timeout and gets no signal:
\* once waiting, the driver never wakes.
DriverLockNeverWakes ==
    /\ drv.pc = "top"
    /\ treelock = "free"
    /\ IF g_thread_pool_unprocessed > cfg.kMaxUnprocessed
       THEN /\ treelock' = "free"
            /\ drv' = [ drv EXCEPT !.pc = "wait", !.signal = FALSE ]
       ELSE /\ treelock' = "driver"
            /\ drv' = [ drv EXCEPT !.current = tree, !.signal = FALSE,
                          !.pc = IF g_node_max_height(tree) > kMaxTreeDepth
                                 THEN "collapse" ELSE "walk" ]
    /\ UNCHANGED <<cfg, gnode, task, threadpool, cleanup, worker, gc, outfd>>

\* Lines 150-172: take treelock; wait (releasing treelock) while too much work
\* is unprocessed; else collapse a tree that is too high, or start the scan at
\* the root.
DriverLock ==
    /\ drv.pc \in {"top", "wait"}
    /\ treelock = "free"
    /\ IF g_thread_pool_unprocessed > cfg.kMaxUnprocessed
       THEN /\ treelock' = "free"
            /\ drv' = [ drv EXCEPT !.pc = "wait", !.signal = FALSE ]
       ELSE /\ treelock' = "driver"
            /\ drv' = [ drv EXCEPT !.current = tree, !.signal = FALSE,
                          !.pc = IF g_node_max_height(tree) > kMaxTreeDepth
                                 THEN "collapse" ELSE "walk" ]
    /\ UNCHANGED <<cfg, gnode, task, threadpool, cleanup, worker, gc, outfd>>

\* collapse_finalized_failure_paths lines 779-826: the final success node
\* becomes the success child of the root; what was between them is pushed to
\* the cleanup pool and moved to the retired tree.
DriverCollapseSuccess ==
    /\ drv.pc = "collapse"
    /\ LET finalsuccess == find_finalized_node(tree, TRUE)
           head == g_node_success(tree)
           g1 == g_node_insert(g_node_unlink(g_node_unlink(gnode, head), finalsuccess),
                               tree, 1, finalsuccess)
       IN IF finalsuccess = 0
          THEN /\ drv' = [ drv EXCEPT !.pc = "abort" ]
               /\ UNCHANGED <<gnode, cleanup>>
          ELSE IF finalsuccess # tree /\ head # finalsuccess
          THEN IF /\ g_node_is_ancestor(tree, head)
                  /\ g_node_is_ancestor(tree, finalsuccess)
                  /\ g_node_is_ancestor(head, finalsuccess)
               THEN /\ gnode' = g_node_insert(g1, retired, -1, head)
                    /\ cleanup' = cleanup \o AbortTasks(g1, head)
                    /\ drv' = [ drv EXCEPT !.pc = "collapsefinal",
                                           !.finalsuccess = finalsuccess ]
               ELSE /\ drv' = [ drv EXCEPT !.pc = "abort" ]
                    /\ UNCHANGED <<gnode, cleanup>>
          ELSE /\ drv' = [ drv EXCEPT !.pc = "collapsefinal",
                                      !.finalsuccess = finalsuccess ]
               /\ UNCHANGED <<gnode, cleanup>>
    /\ UNCHANGED <<cfg, task, treelock, threadpool, worker, gc, outfd>>

\* collapse_finalized_failure_paths lines 828-892: the final node of either
\* result becomes the success child of the final success node.
DriverCollapseFinal ==
    /\ drv.pc = "collapsefinal"
    /\ LET finalsuccess == drv.finalsuccess
           finalnode == find_finalized_node(tree, FALSE)
           head == g_node_success(finalsuccess)
           tail == gnode[finalnode].parent
           g1 == g_node_insert(g_node_unlink(g_node_unlink(gnode, head), finalnode),
                               finalsuccess, 1, finalnode)
       IN IF finalnode = 0
          THEN /\ drv' = [ drv EXCEPT !.pc = "abort" ]
               /\ UNCHANGED <<gnode, cleanup>>
          ELSE IF finalsuccess # finalnode /\ head # finalnode /\ head # tail
          THEN IF /\ g_node_is_ancestor(tree, finalnode)
                  /\ g_node_is_ancestor(finalsuccess, finalnode)
                  /\ g_node_is_ancestor(finalsuccess, head)
                  /\ g_node_is_ancestor(finalsuccess, tail)
                  /\ task[finalsuccess].status = "Success"
               THEN /\ gnode' = g_node_insert(g1, retired, -1, head)
                    /\ cleanup' = cleanup \o AbortTasks(g1, head)
                    /\ drv' = [ drv EXCEPT !.pc = "walk", !.finalsuccess = 0 ]
               ELSE /\ drv' = [ drv EXCEPT !.pc = "abort" ]
                    /\ UNCHANGED <<gnode, cleanup>>
          ELSE /\ drv' = [ drv EXCEPT !.pc = "walk", !.finalsuccess = 0 ]
               /\ UNCHANGED <<gnode, cleanup>>
    /\ UNCHANGED <<cfg, task, treelock, threadpool, worker, gc, outfd>>

\* The scan of lines 183-293 from node n down to the first node at which it
\* stops or has to read the status of a task that is still pending.
RECURSIVE ScanFrom(_)
ScanFrom(n) ==
    IF ~HasTask(n) \/ G_NODE_IS_LEAF(n) \/ task[n].status \notin {"Success", "Failure"}
    THEN n
    ELSE ScanFrom(IF task[n].status = "Success" THEN g_node_success(n)
                  ELSE g_node_failure(n))

\* DriverWalk that guesses success for a pending task (lines 288-292 with
\* the test reversed to status != FAILURE).
DriverWalkGuessSuccess ==
    /\ drv.pc = "walk"
    /\ LET n == ScanFrom(drv.current) IN
       drv' = IF ~HasTask(n)
              THEN [ drv EXCEPT !.pc = "strategy", !.current = n,
                                !.node = gnode[n].parent, !.place = n ]
              ELSE IF task[n].status = "Discarded"
              THEN [ drv EXCEPT !.pc = "abort", !.current = n ]
              ELSE IF G_NODE_IS_LEAF(n)
              THEN [ drv EXCEPT !.pc = "strategy", !.current = n,
                                !.node = n, !.place = 0 ]
              ELSE [ drv EXCEPT !.current = g_node_success(n) ]
    /\ UNCHANGED <<cfg, gnode, task, treelock, threadpool, cleanup, worker, gc, outfd>>

\* Lines 183-293, the scan up to and including one read of a pending task's
\* status: a placeholder or a leaf ends the scan, a discarded task fails the
\* assertion of line 225, a pending task sends the scan to its failure child.
DriverWalk ==
    /\ drv.pc = "walk"
    /\ LET n == ScanFrom(drv.current) IN
       drv' = IF ~HasTask(n)
              THEN [ drv EXCEPT !.pc = "strategy", !.current = n,
                                !.node = gnode[n].parent, !.place = n ]
              ELSE IF task[n].status = "Discarded"
              THEN [ drv EXCEPT !.pc = "abort", !.current = n ]
              ELSE IF G_NODE_IS_LEAF(n)
              THEN [ drv EXCEPT !.pc = "strategy", !.current = n,
                                !.node = n, !.place = 0 ]
              ELSE [ drv EXCEPT !.current = g_node_failure(n) ]
    /\ UNCHANGED <<cfg, gnode, task, treelock, threadpool, cleanup, worker, gc, outfd>>

\* DriverStrategyState without the test of the chunksize (bisect.c lines
\* 151-154, zero.c lines 126-130).
DriverStrategyStateNoFinal ==
    /\ drv.pc = "strategy"
    /\ LET parent == task[drv.node]
           st == IF cfg.strategy = "bisect" THEN BisectState(parent, parent.status)
                 ELSE ZeroState(parent)
       IN drv' = [ drv EXCEPT !.pc = IF cfg.strategy = "bisect" THEN "source" ELSE "skip",
                              !.offset = st.offset,
                              !.chunksize = st.chunksize,
                              !.current = drv.node,
                              !.source = drv.node ]
    /\ UNCHANGED <<cfg, gnode, task, treelock, threadpool, cleanup, worker, gc, outfd>>

\* callback(node), bisect.c lines 129-154 and zero.c lines 111-130: the child's
\* state; "final cycle complete" when the chunksize is zero.
DriverStrategyState ==
    /\ drv.pc = "strategy"
    /\ LET parent == task[drv.node]
           st == IF cfg.strategy = "bisect" THEN BisectState(parent, parent.status)
                 ELSE ZeroState(parent)
       IN drv' = [ drv EXCEPT !.pc = IF st.chunksize = 0 THEN "nochild"
                                     ELSE IF cfg.strategy = "bisect" THEN "source"
                                     ELSE "skip",
                              !.offset = st.offset,
                              !.chunksize = st.chunksize,
                              !.current = drv.node,
                              !.source = drv.node ]
    /\ UNCHANGED <<cfg, gnode, task, treelock, threadpool, cleanup, worker, gc, outfd>>

\* zero.c lines 131-166 from node n towards the root with the child's state
\* { offset, chunksize }, up to and including one read of a pending task's
\* status (a task that is not Success is passed by).  An adjustment restarts
\* the loop at the parent.
RECURSIVE ZeroSkip(_, _, _)
ZeroSkip(n, offset, chunksize) ==
    IF G_NODE_IS_ROOT(n)
    THEN [ to |-> "source", current |-> n, offset |-> offset, chunksize |-> chunksize ]
    ELSE IF task[n].status = "Pending"
    THEN [ to |-> "skip", current |-> gnode[n].parent, offset |-> offset, chunksize |-> chunksize ]
    ELSE IF task[n].status # "Success"
    THEN ZeroSkip(gnode[n].parent, offset, chunksize)
    ELSE IF chunksize > task[n].chunksize
    THEN [ to |-> "abort", current |-> n, offset |-> offset, chunksize |-> chunksize ]
    ELSE LET a == ZeroAdjust(offset, chunksize, task[n], task[drv.node].size)
         IN IF a.chunksize = 0
            THEN [ to |-> "nochild", current |-> n, offset |-> a.offset, chunksize |-> 0 ]
            ELSE IF a.offset # offset \/ a.chunksize # chunksize
            THEN ZeroSkip(drv.node, a.offset, a.chunksize)
            ELSE ZeroSkip(gnode[n].parent, offset, chunksize)

DriverZeroSkip ==
    /\ drv.pc = "skip"
    /\ LET r == ZeroSkip(drv.current, drv.offset, drv.chunksize)
       IN drv' = [ drv EXCEPT !.pc = r.to, !.current = r.current,
                              !.offset = r.offset, !.chunksize = r.chunksize ]
    /\ UNCHANGED <<cfg, gnode, task, treelock, threadpool, cleanup, worker, gc, outfd>>

\* bisect.c lines 158-165 and zero.c lines 171-177 from node n towards the
\* root, up to the first task that is Success (the source), or that is still
\* pending (its status has to be read).
RECURSIVE SourceFrom(_)
SourceFrom(n) ==
    IF G_NODE_IS_ROOT(n) \/ task[n].status \in {"Success", "Pending"}
    THEN n
    ELSE SourceFrom(gnode[n].parent)

\* bisect.c lines 158-177 and zero.c lines 171-181, up to and including one
\* read of a pending task's status: the first Success task from the parent
\* towards the root is the source.  bisect gives up on an empty source.
DriverStrategySource ==
    /\ drv.pc = "source"
    /\ LET s == SourceFrom(drv.source) IN
       drv' = IF task[s].status = "Success" \/ G_NODE_IS_ROOT(s)
              THEN [ drv EXCEPT !.source = s,
                                !.pc = IF cfg.strategy = "zero" THEN "pread"
                                       ELSE IF task[s].size = 0 THEN "nochild"
                                       ELSE "build" ]
              ELSE [ drv EXCEPT !.source = gnode[s].parent ]
    /\ UNCHANGED <<cfg, gnode, task, treelock, threadpool, cleanup, worker, gc, outfd>>

\* zero.c lines 183-219: the chunk is read from the source's fd without the
\* source's mutex; a chunk that is already zero is skipped and the loop of
\* lines 131-166 restarts.
DriverZeroPread ==
    /\ drv.pc = "pread"
    /\ LET source == task[drv.source]
           a == ZeroAdvance(drv.offset, drv.chunksize, task[drv.node].size)
       IN drv' = IF source.fd = -1
                 THEN [ drv EXCEPT !.pc = "abort" ]
                 ELSE IF ~ZeroAlready(source, drv.offset, drv.chunksize)
                 THEN [ drv EXCEPT !.pc = "build" ]
                 ELSE [ drv EXCEPT !.pc = IF a.chunksize = 0 THEN "nochild" ELSE "skip",
                                   !.offset = a.offset,
                                   !.chunksize = a.chunksize,
                                   !.current = drv.node ]
    /\ UNCHANGED <<cfg, gnode, task, treelock, threadpool, cleanup, worker, gc, outfd>>

\* bisect.c lines 185-232 and zero.c lines 223-276, under the source's mutex.
DriverStrategyBuild ==
    /\ drv.pc = "build"
    /\ task[drv.source].mutex = "free"
    /\ LET source == task[drv.source] IN
       drv' = IF source.fd = -1
              THEN [ drv EXCEPT !.pc = "abort" ]
              ELSE IF drv.offset > source.size
              THEN [ drv EXCEPT !.pc = "nochild" ]
              ELSE [ drv EXCEPT !.pc = "attach",
                       !.child = [ NullTask EXCEPT
                           !.fd = NewFd(NewNode),
                           !.status = "Pending",
                           !.offset = drv.offset,
                           !.chunksize = drv.chunksize,
                           !.data = IF cfg.strategy = "bisect"
                                    THEN BisectData(source, drv.offset, drv.chunksize)
                                    ELSE ZeroData(source, drv.offset, drv.chunksize),
                           !.size = IF cfg.strategy = "bisect"
                                    THEN BisectSize(source, drv.offset, drv.chunksize)
                                    ELSE source.size ] ]
    /\ UNCHANGED <<cfg, gnode, task, treelock, threadpool, cleanup, worker, gc, outfd>>

ResetLocals(pc) == [ IdleDriver EXCEPT !.pc = pc ]

\* DriverAttach with the test of line 259 as status != FAILURE: a pending
\* leaf gets its real child in the success slot.
DriverAttachGuessSuccess ==
    /\ drv.pc = "attach"
    /\ IF drv.place # 0
       THEN /\ task' = [ task EXCEPT ![drv.place] = drv.child ]
            /\ threadpool' = Append(threadpool, drv.place)
            /\ treelock' = "free"
            /\ drv' = ResetLocals("top")
       ELSE /\ drv' = [ drv EXCEPT !.pc = "insert",
                                   !.slot = (task[drv.node].status # "Failure") ]
            /\ UNCHANGED <<task, threadpool, treelock>>
    /\ UNCHANGED <<cfg, gnode, cleanup, worker, gc, outfd>>

\* Lines 219-221: the placeholder gets the task, which is pushed.  Line 260:
\* the leaf's status is read to choose the side of the real child.
DriverAttach ==
    /\ drv.pc = "attach"
    /\ IF drv.place # 0
       THEN /\ task' = [ task EXCEPT ![drv.place] = drv.child ]
            /\ threadpool' = Append(threadpool, drv.place)
            /\ treelock' = "free"
            /\ drv' = ResetLocals("top")
       ELSE /\ drv' = [ drv EXCEPT !.pc = "insert",
                                   !.slot = (task[drv.node].status = "Success") ]
            /\ UNCHANGED <<task, threadpool, treelock>>
    /\ UNCHANGED <<cfg, gnode, cleanup, worker, gc, outfd>>

\* DriverInsert with the positions of lines 262-275 exchanged: the real child
\* on the side not taken.
DriverInsertSwapped ==
    /\ drv.pc = "insert"
    /\ LET n == NewNode IN
       /\ task' = task \o << drv.child, NullTask >>
       /\ gnode' = [ gnode EXCEPT ![drv.node].children =
                         IF drv.slot THEN << n, n + 1 >> ELSE << n + 1, n >> ]
                   \o << [ parent |-> drv.node, children |-> <<>> ],
                         [ parent |-> drv.node, children |-> <<>> ] >>
       /\ threadpool' = Append(threadpool, n)
    /\ treelock' = "free"
    /\ drv' = ResetLocals("top")
    /\ UNCHANGED <<cfg, cleanup, worker, gc, outfd>>

\* DriverInsert with the g_thread_pool_push of lines 264-273 done twice.
DriverInsertPushesTwice ==
    /\ drv.pc = "insert"
    /\ LET n == NewNode IN
       /\ task' = task \o << drv.child, NullTask >>
       /\ gnode' = [ gnode EXCEPT ![drv.node].children =
                         IF drv.slot THEN << n + 1, n >> ELSE << n, n + 1 >> ]
                   \o << [ parent |-> drv.node, children |-> <<>> ],
                         [ parent |-> drv.node, children |-> <<>> ] >>
       /\ threadpool' = threadpool \o << n, n >>
    /\ treelock' = "free"
    /\ drv' = ResetLocals("top")
    /\ UNCHANGED <<cfg, cleanup, worker, gc, outfd>>

\* Lines 261-278: the leaf gets two children, the real one (pushed to the
\* pool) on the chosen side and a placeholder on the other; then the unlock of
\* line 302.
DriverInsert ==
    /\ drv.pc = "insert"
    /\ LET n == NewNode IN
       /\ task' = task \o << drv.child, NullTask >>
       /\ gnode' = [ gnode EXCEPT ![drv.node].children =
                         IF drv.slot THEN << n + 1, n >> ELSE << n, n + 1 >> ]
                   \o << [ parent |-> drv.node, children |-> <<>> ],
                         [ parent |-> drv.node, children |-> <<>> ] >>
       /\ threadpool' = Append(threadpool, n)
    /\ treelock' = "free"
    /\ drv' = ResetLocals("top")
    /\ UNCHANGED <<cfg, cleanup, worker, gc, outfd>>

\* Lines 199-217 and 241-255: no task could be generated.  Finalized path: done
\* (for a leaf the pool must hold nothing unprocessed); otherwise back off.
DriverNoChild ==
    /\ drv.pc = "nochild"
    /\ drv' = IF ~root_path_finalized(drv.node)
              THEN ResetLocals("delay")
              ELSE IF drv.place = 0 /\ g_thread_pool_unprocessed # 0
              THEN [ drv EXCEPT !.pc = "abort" ]
              ELSE [ ResetLocals("finalized") EXCEPT !.node = drv.node ]
    /\ treelock' = IF drv'.pc = "abort" THEN treelock ELSE "free"
    /\ UNCHANGED <<cfg, gnode, task, threadpool, cleanup, worker, gc, outfd>>

\* Line 328: g_usleep, then the next iteration.
DriverDelay ==
    /\ drv.pc = "delay"
    /\ drv' = [ drv EXCEPT !.pc = "top" ]
    /\ UNCHANGED <<cfg, gnode, task, treelock, threadpool, cleanup, worker, gc, outfd>>

\* Line 314 with wait == FALSE: the call returns while nodes are still queued
\* or being processed.
DriverFreeThreadpoolNoWait ==
    /\ drv.pc = "finalized"
    /\ drv' = [ drv EXCEPT !.pc = "freecleanup" ]
    /\ UNCHANGED <<cfg, gnode, task, treelock, threadpool, cleanup, worker, gc, outfd>>

\* Line 314: g_thread_pool_free(threadpool, FALSE, TRUE) returns when every
\* queued node has been processed.
DriverFreeThreadpool ==
    /\ drv.pc = "finalized"
    /\ threadpool = <<>>
    /\ \A w \in Workers : worker[w].pc = "idle"
    /\ drv' = [ drv EXCEPT !.pc = "freecleanup" ]
    /\ UNCHANGED <<cfg, gnode, task, treelock, threadpool, cleanup, worker, gc, outfd>>

\* Line 315: g_thread_pool_free(cleanup, FALSE, TRUE).
DriverFreeCleanup ==
    /\ drv.pc = "freecleanup"
    /\ cleanup = <<>>
    /\ \A g \in DOMAIN gc : gc[g].pc = "idle"
    /\ drv' = [ drv EXCEPT !.pc = "output" ]
    /\ UNCHANGED <<cfg, gnode, task, treelock, threadpool, cleanup, worker, gc, outfd>>

\* analyze_tree_helper's assertion over both trees.
NoPendingTask == \A n \in DOMAIN task : task[n].status # "Pending"

\* Lines 318-319: show_tree_statistics, then duplicate_final_node dup()s the fd
\* of find_finalized_node(tree, true).
DriverOutput ==
    /\ drv.pc = "output"
    /\ LET success == find_finalized_node(tree, TRUE)
           good == /\ NoPendingTask
                   /\ success # 0
                   /\ task[success].status = "Success"
                   /\ task[success].fd # -1
       IN /\ outfd' = IF good THEN success ELSE outfd
          /\ drv' = [ drv EXCEPT !.pc = IF good THEN "cleanup" ELSE "abort" ]
    /\ UNCHANGED <<cfg, gnode, task, treelock, threadpool, cleanup, worker, gc>>

\* Discard without lines 368 and 376: the fd is neither closed nor cleared.
DiscardKeepsFd(t) ==
    [ t EXCEPT !.status = IF @ = "Pending" THEN "Discarded" ELSE @,
               !.childpid = 0,
               !.child = IF t.childpid > 0 /\ @ = "zombie" THEN "reaped" ELSE @ ]

\* Discard without the waitpid of lines 370-374: the zombie is not reaped.
DiscardNoWaitpid(t) ==
    [ t EXCEPT !.status = IF @ = "Pending" THEN "Discarded" ELSE @,
               !.fd = -1,
               !.childpid = 0 ]

\* Discard without line 377: childpid is not cleared.
DiscardKeepsChildpid(t) ==
    [ t EXCEPT !.status = IF @ = "Pending" THEN "Discarded" ELSE @,
               !.fd = -1,
               !.child = IF t.childpid > 0 /\ @ = "zombie" THEN "reaped" ELSE @ ]

\* The critical section of cleanup_orphaned_tasks, lines 363-377.
Discard(t) ==
    [ t EXCEPT !.status = IF @ = "Pending" THEN "Discarded" ELSE @,
               !.fd = -1,
               !.childpid = 0,
               !.child = IF t.childpid > 0 /\ @ = "zombie" THEN "reaped" ELSE @ ]

\* The nodes g_node_traverse(root, G_IN_ORDER, G_TRAVERSE_ALL, -1, ...) visits.
InTree(root, n) == n = root \/ g_node_is_ancestor(root, n)

\* Lines 320-322: cleanup_tree runs cleanup_orphaned_tasks on every task of
\* both trees; the driver returns true.
DriverCleanupTree ==
    /\ drv.pc = "cleanup"
    /\ task' = [ n \in DOMAIN task |->
                   IF HasTask(n) /\ (InTree(tree, n) \/ InTree(retired, n))
                   THEN Discard(task[n]) ELSE task[n] ]
    /\ drv' = [ drv EXCEPT !.pc = "done" ]
    /\ UNCHANGED <<cfg, gnode, treelock, threadpool, cleanup, worker, gc, outfd>>

\* ---------------------------------------------------------------- worker pool
IdleWorker == [ pc |-> "idle", node |-> 0, root |-> 0 ]

\* g_cond_signal(&treecond), line 525: the driver, if it waits in
\* g_cond_wait_until (line 156), is woken; otherwise the signal is lost.
g_cond_signal(d) == IF d.pc = "wait" THEN [ d EXCEPT !.signal = TRUE ] ELSE d

\* WorkerPop of a pool that hands out the newest unprocessed node first.
WorkerPopNewest(w) ==
    /\ worker[w].pc = "idle"
    /\ \A v \in Workers : v < w => worker[v].pc # "idle"
    /\ threadpool # <<>>
    /\ worker' = [ worker EXCEPT ![w] = [ pc |-> "lock",
                                          node |-> threadpool[Len(threadpool)],
                                          root |-> 0 ] ]
    /\ threadpool' = SubSeq(threadpool, 1, Len(threadpool) - 1)
    /\ UNCHANGED <<cfg, gnode, task, treelock, cleanup, gc, drv, outfd>>

\* The pool hands the oldest unprocessed node to an idle thread (threads are
\* interchangeable: the lowest idle one takes it).
WorkerPop(w) ==
    /\ worker[w].pc = "idle"
    /\ \A v \in Workers : v < w => worker[v].pc # "idle"
    /\ threadpool # <<>>
    /\ worker' = [ worker EXCEPT ![w] = [ pc |-> "lock", node |-> Head(threadpool), root |-> 0 ] ]
    /\ threadpool' = Tail(threadpool)
    /\ UNCHANGED <<cfg, gnode, task, treelock, cleanup, gc, drv, outfd>>

\* process_execute_jobs lines 439-464: lock the task; a discarded task is
\* dropped, a pending one gets its timer and its child process.
WorkerLock(w) ==
    /\ worker[w].pc = "lock"
    /\ LET n == worker[w].node IN
       /\ task[n].mutex = "free"
       /\ IF task[n].status = "Discarded"
          THEN /\ worker' = [ worker EXCEPT ![w] = IdleWorker ]
               /\ task' = task
          ELSE IF task[n].status # "Pending" \/ task[n].timer
          THEN /\ worker' = [ worker EXCEPT ![w].pc = "abort" ]
               /\ task' = task
          ELSE /\ worker' = [ worker EXCEPT ![w].pc = "run" ]
               /\ task' = StartTask(n)
    /\ UNCHANGED <<cfg, gnode, treelock, threadpool, cleanup, gc, drv, outfd>>

\* WorkerFinish without the g_thread_pool_push of line 516: a failed task is
\* not pushed to the cleanup pool.
WorkerFinishNoPush(w) ==
    /\ worker[w].pc = "run"
    /\ LET n == worker[w].node IN
       /\ \E late \in LateAlarms(n) : task' = g_thread_join(FinishTask(n), n, late)
       /\ IF Result(n) = 0
          THEN /\ worker' = [ worker EXCEPT ![w] =
                                IF g_node_failure(n) = 0 THEN IdleWorker
                                ELSE [ pc |-> "sweep", node |-> n, root |-> g_node_failure(n) ] ]
               /\ cleanup' = cleanup
               /\ drv' = IF g_node_failure(n) = 0 THEN g_cond_signal(drv) ELSE drv
          ELSE /\ worker' = [ worker EXCEPT ![w] = IdleWorker ]
               /\ cleanup' = cleanup
               /\ drv' = g_cond_signal(drv)
    /\ UNCHANGED <<cfg, gnode, treelock, threadpool, gc, outfd>>

\* process_execute_jobs lines 466-526: the child has ended; record the result
\* and unlock.  Success reads g_node_failure(node) for the sweep; failure
\* pushes the task to the cleanup pool.  The thread that is done signals
\* treecond (line 525).
WorkerFinish(w) ==
    /\ worker[w].pc = "run"
    /\ LET n == worker[w].node IN
       /\ \E late \in LateAlarms(n) : task' = g_thread_join(FinishTask(n), n, late)
       /\ IF Result(n) = 0
          THEN /\ worker' = [ worker EXCEPT ![w] =
                                IF g_node_failure(n) = 0 THEN IdleWorker
                                ELSE [ pc |-> "sweep", node |-> n, root |-> g_node_failure(n) ] ]
               /\ cleanup' = cleanup
               /\ drv' = IF g_node_failure(n) = 0 THEN g_cond_signal(drv) ELSE drv
          ELSE /\ worker' = [ worker EXCEPT ![w] = IdleWorker ]
               /\ cleanup' = Append(cleanup, n)
               /\ drv' = g_cond_signal(drv)
    /\ UNCHANGED <<cfg, gnode, treelock, threadpool, gc, outfd>>

\* abort_pending_tasks lines 403-413: under treelock, push every task of the
\* failure subtree to the cleanup pool; then the signal of line 525.
WorkerSweep(w) ==
    /\ worker[w].pc = "sweep"
    /\ treelock = "free"
    /\ cleanup' = cleanup \o AbortTasks(gnode, worker[w].root)
    /\ worker' = [ worker EXCEPT ![w] = IdleWorker ]
    /\ drv' = g_cond_signal(drv)
    /\ UNCHANGED <<cfg, gnode, task, treelock, threadpool, gc, outfd>>

\* ---------------------------------------------------------------- cleanup pool
\* cleanup_orphaned_tasks lines 341-348: childpid is read without the mutex and
\* the child's process group is signalled.
GcPop(g) ==
    /\ gc[g].pc = "idle"
    /\ cleanup # <<>>
    /\ LET t == Head(cleanup) IN
       /\ gc' = [ gc EXCEPT ![g] = [ pc |-> "lock", task |-> t ] ]
       /\ task' = IF kKillFailedWorkers /\ task[t].childpid > 0 /\ Alive(task[t])
                  THEN [ task EXCEPT ![t].child = "killed" ]
                  ELSE task
    /\ cleanup' = Tail(cleanup)
    /\ UNCHANGED <<cfg, gnode, treelock, threadpool, worker, drv, outfd>>

\* GcLock without the test of line 363: every task becomes discarded.
GcLockAnyStatus(g) ==
    /\ gc[g].pc = "lock"
    /\ LET t == gc[g].task IN
       /\ task[t].mutex = "free"
       /\ task' = [ task EXCEPT ![t] = [ @ EXCEPT !.mutex = "gc", !.status = "Discarded" ] ]
    /\ gc' = [ gc EXCEPT ![g].pc = "clean" ]
    /\ UNCHANGED <<cfg, gnode, treelock, threadpool, cleanup, worker, drv, outfd>>

\* GcLock that does not wait for the task's mutex (line 355 left out).
GcLockNoMutex(g) ==
    /\ gc[g].pc = "lock"
    /\ LET t == gc[g].task IN
       task' = [ task EXCEPT ![t] = [ @ EXCEPT
                        !.mutex = "gc",
                        !.status = IF @ = "Pending" THEN "Discarded" ELSE @ ] ]
    /\ gc' = [ gc EXCEPT ![g].pc = "clean" ]
    /\ UNCHANGED <<cfg, gnode, treelock, threadpool, cleanup, worker, drv, outfd>>

\* Lines 355-364: lock the task, a pending task becomes discarded.
GcLock(g) ==
    /\ gc[g].pc = "lock"
    /\ LET t == gc[g].task IN
       /\ task[t].mutex = "free"
       /\ task' = [ task EXCEPT ![t] = [ @ EXCEPT
                        !.mutex = "gc",
                        !.status = IF @ = "Pending" THEN "Discarded" ELSE @ ] ]
    /\ gc' = [ gc EXCEPT ![g].pc = "clean" ]
    /\ UNCHANGED <<cfg, gnode, treelock, threadpool, cleanup, worker, drv, outfd>>

\* Lines 368-380: close the fd, reap the child, clear both fields, unlock.
GcClean(g) ==
    /\ gc[g].pc = "clean"
    /\ LET t == gc[g].task IN
       task' = [ task EXCEPT ![t] = [ Discard(@) EXCEPT !.mutex = "free" ] ]
    /\ gc' = [ gc EXCEPT ![g] = [ pc |-> "idle", task |-> 0 ] ]
    /\ UNCHANGED <<cfg, gnode, treelock, threadpool, cleanup, worker, drv, outfd>>

\* ---------------------------------------------------------------- specification
Driver ==
    \/ DriverVerify \/ DriverStart \/ DriverLock
    \/ DriverCollapseSuccess \/ DriverCollapseFinal \/ DriverWalk
    \/ DriverStrategyState \/ DriverZeroSkip \/ DriverStrategySource
    \/ DriverZeroPread \/ DriverStrategyBuild
    \/ DriverAttach \/ DriverInsert \/ DriverNoChild \/ DriverDelay
    \/ DriverFreeThreadpool \/ DriverFreeCleanup \/ DriverOutput \/ DriverCleanupTree

Worker(w) == WorkerPop(w) \/ WorkerLock(w) \/ WorkerFinish(w) \/ WorkerSweep(w)

Gc(g) == GcPop(g) \/ GcLock(g) \/ GcClean(g)

Next ==
    \/ Driver
    \/ \E w \in Workers : Worker(w)
    \/ \E g \in Cleaners : Gc(g)

Spec == Init /\ [][Next]_vars

\* WatchdogFire with kill(data->child, SIGALRM): only the group leader gets
\* the signal.
WatchdogFireLeader(n) ==
    /\ task[n].watchdog = "armed"
    /\ Alive(task[n])
    /\ task' = [ task EXCEPT ![n] = [ @ EXCEPT !.watchdog = "done",
                                               !.child = "alarmed",
                                               !.alarm = Append(@, "pid") ] ]
    /\ UNCHANGED <<cfg, gnode, treelock, threadpool, cleanup, worker, gc, drv, outfd>>

\* timeout_watchdog_thread, proc.c lines 176-200: the deadline passes while
\* the watchdog waits and the child runs; SIGALRM goes to the child's process
\* group and the watchdog returns.
WatchdogFire(n) ==
    /\ task[n].watchdog = "armed"
    /\ Alive(task[n])
    /\ task' = [ task EXCEPT ![n] = [ @ EXCEPT !.watchdog = "done",
                                               !.child = "alarmed",
                                               !.alarm = Append(@, "pgrp") ] ]
    /\ UNCHANGED <<cfg, gnode, treelock, threadpool, cleanup, worker, gc, drv, outfd>>

\* The program run with --timeout=1 and --max-queue=0.
TimeoutInit == cfg \in Configs({0}, {1}) /\ Construct

TimeoutNext == Next \/ \E n \in DOMAIN task : WatchdogFire(n)

TimeoutSpec == TimeoutInit /\ [][TimeoutNext]_vars

\* Scheduling: every thread that can take a step eventually takes one (the
\* waits of lines 155-158 and 328 are timed, the pools run their threads), and
\* a thread blocked on treelock gets it when it is released again and again
\* (the driver sleeps between two acquisitions).
Fairness ==
    /\ WF_vars(Driver)
    /\ \A w \in Workers : /\ WF_vars(WorkerPop(w) \/ WorkerLock(w) \/ WorkerFinish(w))
                          /\ SF_vars(WorkerSweep(w))
    /\ \A g \in Cleaners : WF_vars(Gc(g))

FairSpec == Spec /\ Fairness

NoAbort == drv.pc # "abort" /\ \A w \in Workers : worker[w].pc # "abort"


\* ---------------------------------------------------------------- main
\* The order in which the constructors of bisect.o and zero.o fill
\* kStrategyList is the build's.
StrategyOrders == { <<"bisect", "zero">>, <<"zero", "bisect">> }

\* main's run: the configuration, with main's locals (k, originalsize), the
\* output file it writes, and the size of the output of a first run for a
\* second run on that output.
MainLen == 3

MainConfigs ==
    { [ input |-> [ j \in 1..n |-> j ], pred |-> "zero1", strategy |-> o[1],
        kMaxUnprocessed |-> 0, kVerifyInput |-> v, kMaxProcessTime |-> 0,
        kIterateUntilStable |-> TRUE, order |-> o, k |-> 1,
        originalsize |-> n, pc |-> "run", output |-> <<>>, first |-> -1 ] :
      n \in 0..MainLen, o \in StrategyOrders, v \in BOOLEAN }

\* build_bisection_tree called again by main: Construct for the next state.
ConstructAgain ==
    /\ gnode' = << NullNode, NullNode >>
    /\ task' = << [ NullTask EXCEPT !.fd = 3, !.size = Len(cfg'.input),
                                    !.data = cfg'.input,
                                    !.status = IF cfg'.kVerifyInput THEN "Pending" ELSE "Success",
                                    !.timer = ~cfg'.kVerifyInput ],
                  NullTask >>
    /\ treelock' = "free"
    /\ threadpool' = <<>>
    /\ cleanup' = <<>>
    /\ worker' = [ w \in Workers |-> [ pc |-> "idle", node |-> 0, root |-> 0 ] ]
    /\ gc' = [ g \in Cleaners |-> [ pc |-> "idle", task |-> 0 ] ]
    /\ drv' = [ IdleDriver EXCEPT !.pc = IF cfg'.kVerifyInput THEN "verify" ELSE "start" ]
    /\ outfd' = 0

\* Lines 243-254: the next strategy runs on the output of the one before.
MainStrategy ==
    /\ cfg.pc = "run"
    /\ drv.pc = "done"
    /\ cfg.k < Len(cfg.order)
    /\ cfg' = [ cfg EXCEPT !.k = @ + 1,
                           !.strategy = cfg.order[cfg.k + 1],
                           !.input = task[outfd].data ]
    /\ ConstructAgain

\* Lines 246-249: build_bisection_tree returned false.
MainFailure ==
    /\ cfg.pc = "run"
    /\ drv.pc = "failed"
    /\ cfg' = [ cfg EXCEPT !.pc = "EXIT_FAILURE" ]
    /\ UNCHANGED <<gnode, task, treelock, threadpool, cleanup, worker, gc, drv, outfd>>

\* Lines 256-271: after the last strategy, another cycle with --stable when
\* the file got smaller, else the output file is written.
MainCycle ==
    /\ cfg.pc = "run"
    /\ drv.pc = "done"
    /\ cfg.k = Len(cfg.order)
    /\ IF cfg.kIterateUntilStable /\ task[outfd].size < cfg.originalsize
       THEN /\ cfg' = [ cfg EXCEPT !.k = 1,
                                  !.strategy = cfg.order[1],
                                  !.input = task[outfd].data,
                                  !.originalsize = task[outfd].size ]
            /\ ConstructAgain
       ELSE /\ cfg' = [ cfg EXCEPT !.pc = "EXIT_SUCCESS", !.output = task[outfd].data ]
            /\ UNCHANGED <<gnode, task, treelock, threadpool, cleanup, worker, gc, drv, outfd>>

\* The program is run again, without --stable, on the output of a run with
\* --stable: one further cycle of all strategies.
MainAgain ==
    /\ cfg.pc = "EXIT_SUCCESS"
    /\ cfg.kIterateUntilStable
    /\ cfg' = [ cfg EXCEPT !.pc = "run", !.kIterateUntilStable = FALSE,
                           !.k = 1, !.strategy = cfg.order[1],
                           !.input = cfg.output,
                           !.originalsize = Len(cfg.output),
                           !.first = Len(cfg.output) ]
    /\ ConstructAgain

Main == MainStrategy \/ MainFailure \/ MainCycle \/ MainAgain

MainInit == cfg \in MainConfigs /\ Construct

MainNext == Next \/ Main

MainSpec == MainInit /\ [][MainNext]_vars

\* ---------------------------------------------------------------- --zero-char
\* The zero strategy with the option --zero-char (zero.c lines 48-53).
ZeroCharConfigs ==
    [ input : Inputs, pred : Predicates, strategy : {"zero"},
      kMaxUnprocessed : 0..MaxQueue, kVerifyInput : BOOLEAN, kMaxProcessTime : {0},
      kZeroCharacter : ZeroChars ]

ZeroCharInit == cfg \in ZeroCharConfigs /\ Construct

ZeroCharSpec == ZeroCharInit /\ [][Next]_vars

\* ---------------------------------------------------------------- compression
\* The file of MainLen bytes under bisect, on which both halves of
\* collapse_finalized_failure_paths find nodes to move, and the file of one
\* byte under zero with the verification of the input.
CompressConfigs ==
    [ input : { [ i \in 1..MainLen |-> i ] }, pred : {"has2"},
      strategy : {"bisect"}, kMaxUnprocessed : 0..MaxQueue,
      kVerifyInput : {FALSE}, kMaxProcessTime : {0} ]
    \cup
    [ input : { <<1>> }, pred : {"any"},
      strategy : {"zero"}, kMaxUnprocessed : {0},
      kVerifyInput : {TRUE}, kMaxProcessTime : {0} ]

CompressInit == cfg \in CompressConfigs /\ Construct

CompressSpec == CompressInit /\ [][Next]_vars

\* ---------------------------------------------------------------- cleanup threads
\* cleanup_orphaned_tasks with its unlocked steps apart, run by one thread more
\* than kCleanupThreads (the default of flags.c line 43 is 4 threads).
ReapCleaners == 1..(kCleanupThreads + 1)

\* Line 341: the thread takes a task from the pool and reads task->childpid,
\* without the task's mutex.
GcRead(g) ==
    /\ gc[g].pc = "idle"
    /\ \A h \in ReapCleaners : h < g => gc[h].pc # "idle"
    /\ cleanup # <<>>
    /\ gc' = [ gc EXCEPT ![g] = [ pc |-> "kill", task |-> Head(cleanup),
                                  childpid |-> task[Head(cleanup)].childpid ] ]
    /\ cleanup' = Tail(cleanup)
    /\ UNCHANGED <<cfg, gnode, task, treelock, threadpool, worker, drv, outfd>>

\* Lines 346-348: kill(-childpid, kKillFailedWorkersSignal) with the pid read
\* at line 341.
GcKill(g) ==
    /\ gc[g].pc = "kill"
    /\ LET t == gc[g].task IN
       task' = IF kKillFailedWorkers /\ gc[g].childpid > 0 /\ Alive(task[t])
               THEN [ task EXCEPT ![t].child = "killed" ]
               ELSE task
    /\ gc' = [ gc EXCEPT ![g] = [ pc |-> "lock", task |-> gc[g].task ] ]
    /\ UNCHANGED <<cfg, gnode, treelock, threadpool, cleanup, worker, drv, outfd>>

ReapConfigs ==
    [ input : Inputs, pred : Predicates, strategy : kStrategyList,
      kMaxUnprocessed : {0}, kVerifyInput : BOOLEAN, kMaxProcessTime : {0} ]

ReapInit ==
    /\ cfg \in ReapConfigs
    /\ gnode = << NullNode, NullNode >>
    /\ task = << [ NullTask EXCEPT !.fd = 3, !.size = Len(cfg.input),
                                   !.data = cfg.input,
                                   !.status = IF cfg.kVerifyInput THEN "Pending" ELSE "Success",
                                   !.timer = ~cfg.kVerifyInput ],
                 NullTask >>
    /\ treelock = "free"
    /\ threadpool = <<>>
    /\ cleanup = <<>>
    /\ worker = [ w \in Workers |-> [ pc |-> "idle", node |-> 0, root |-> 0 ] ]
    /\ gc = [ g \in ReapCleaners |-> [ pc |-> "idle", task |-> 0 ] ]
    /\ drv = [ IdleDriver EXCEPT !.pc = IF cfg.kVerifyInput THEN "verify" ELSE "start" ]
    /\ outfd = 0

ReapNext ==
    \/ Driver
    \/ \E w \in Workers : Worker(w)
    \/ \E g \in ReapCleaners : GcRead(g) \/ GcKill(g) \/ GcLock(g) \/ GcClean(g)

ReapSpec == ReapInit /\ [][ReapNext]_vars
\* ---------------------------------------------------------------- properties
\* The driver holds treelock and is between the wait of line 155 and the
\* unlock of line 302.
DriverIterating ==
    drv.pc \in { "collapse", "collapsefinal", "walk", "strategy", "skip", "source",
                 "pread", "build", "attach", "insert", "nochild" }

\* C7: the driver attaches and enqueues a task only while at most
\* kMaxUnprocessed tasks are unprocessed, so the number of unprocessed tasks
\* never exceeds kMaxUnprocessed + 1.
C7_Backpressure ==
    /\ g_thread_pool_unprocessed <= cfg.kMaxUnprocessed + 1
    /\ DriverIterating => g_thread_pool_unprocessed <= cfg.kMaxUnprocessed

\* The bound of C7 is reached: the queue holds kMaxUnprocessed + 1 tasks, more
\* than one.
C7_Witness ==
    /\ cfg.kMaxUnprocessed > 0
    /\ g_thread_pool_unprocessed = cfg.kMaxUnprocessed + 1

\* C8, as it holds: kMaxUnprocessed = 0 is accepted; the driver then works on
\* the tree exactly while nothing is unprocessed, and at most one task is ever
\* unprocessed.
C8_ZeroQueueRuns ==
    cfg.kMaxUnprocessed = 0 =>
        /\ g_thread_pool_unprocessed <= 1
        /\ DriverIterating => threadpool = <<>>

\* With kMaxUnprocessed = 0 a generated task is unprocessed in the pool.
C8_Witness ==
    /\ cfg.kMaxUnprocessed = 0
    /\ g_thread_pool_unprocessed = 1
    /\ task[Head(threadpool)].status = "Pending"

\* C8, as stated: with kMaxUnprocessed = 0 the driver never generates or
\* enqueues a task.
C8_ZeroRejected ==
    cfg.kMaxUnprocessed = 0 =>
        /\ threadpool = <<>>
        /\ Len(task) = 2
        /\ ~DriverIterating

\* C9: a status changes only from Pending: to Success or Failure by the thread
\* that runs the task in process_execute_jobs and holds its mutex, to Discarded
\* by a cleanup thread that holds its mutex.  (A placeholder that gets its task
\* starts at Pending.)  A Success or Failure task keeps its status through
\* cleanup, and nothing leaves Discarded.
C9_StatusTransitions ==
    [][ \A n \in DOMAIN task :
          task'[n].status # task[n].status =>
            \/ /\ task[n].status = "NULL"
               /\ task'[n].status = "Pending"
            \/ /\ task[n].status = "Pending"
               /\ task'[n].status \in {"Success", "Failure"}
               /\ task[n].mutex = "worker"
               /\ \/ \E w \in Workers : worker[w].pc = "run" /\ worker[w].node = n
                  \/ n = tree /\ drv.pc = "start"
            \/ /\ task[n].status = "Pending"
               /\ task'[n].status = "Discarded"
               /\ task'[n].mutex = "gc"
               /\ \E g \in Cleaners : gc[g].pc = "lock" /\ gc[g].task = n ]_vars

\* All of C9's cases have happened: a task run to Success, one run to Failure
\* and then cleaned up with its status kept, and one discarded.
C9_Witness ==
    \E a, b, c \in DOMAIN task :
        /\ a # tree /\ task[a].status = "Success"
        /\ task[b].status = "Failure" /\ task[b].fd = -1 /\ task[b].mutex = "free"
        /\ task[c].status = "Discarded"
        /\ drv.pc # "done"

\* A cleanup pass over task n has completed.
Cleaned(n) == task[n].status = "Discarded" /\ task[n].mutex # "gc"

\* C10: a Discarded task whose cleanup pass has completed has fd = -1 and
\* childpid = 0, and stays Discarded with both from then on.
C10_DiscardedReleased ==
    /\ [](\A n \in DOMAIN task : Cleaned(n) => task[n].fd = -1 /\ task[n].childpid = 0)
    /\ [][ \A n \in DOMAIN task :
             (Cleaned(n) /\ task[n].fd = -1 /\ task[n].childpid = 0)
                => (task'[n].status = "Discarded" /\ task'[n].fd = -1 /\ task'[n].childpid = 0) ]_vars

\* A task was discarded and cleaned up while the run is still going on.
C10_Witness ==
    /\ \E n \in DOMAIN task : Cleaned(n) /\ task[n].fd = -1
    /\ drv.pc \in {"top", "wait", "walk"}

\* ---------------------------------------------------------------- serial bisection
\* One test at a time: the candidate after a task whose result is known, built
\* by the strategy's own state and data rules (bisect.c lines 129-232).  final
\* is the size of what find_finalized_node selects on the path built so far:
\* the deepest Success task that has a child (tree.c lines 659-672).
RECURSIVE SerialBisect(_, _, _, _)
SerialBisect(p, source, parent, final) ==
    LET st == BisectState(parent, parent.status)
        cand == [ offset |-> st.offset, chunksize |-> st.chunksize,
                  data |-> BisectData(source, st.offset, st.chunksize),
                  size |-> BisectSize(source, st.offset, st.chunksize) ]
    IN IF st.chunksize = 0 \/ source.size = 0 \/ st.offset > source.size
       THEN final
       ELSE IF Pred(p, cand.data)
            THEN SerialBisect(p, cand, cand @@ [ status |-> "Success" ], source.size)
            ELSE SerialBisect(p, source, cand @@ [ status |-> "Failure" ], source.size)

\* The size a serial run returns; the zero strategy never changes the size.
SerialSize ==
    LET root == [ offset |-> 0, chunksize |-> Len(cfg.input), data |-> cfg.input,
                  size |-> Len(cfg.input), status |-> "Success" ]
    IN IF cfg.strategy = "bisect" THEN SerialBisect(cfg.pred, root, root, root.size)
       ELSE Len(cfg.input)

\* The nearest task with status Success from n towards the root (the root
\* qualifies).
RECURSIVE NearestSuccess(_)
NearestSuccess(n) ==
    IF G_NODE_IS_ROOT(n) \/ task[n].status = "Success" THEN n
    ELSE NearestSuccess(gnode[n].parent)

\* C2: the run is declared complete only for a node whose path to the root is
\* finalized, and the fd that is then duplicated is that of the deepest Success
\* task on that path, which is Success with an open fd at that moment.
C2_FinalIsDeepestSuccess ==
    /\ drv.pc \in {"finalized", "freecleanup", "output", "cleanup"}
          => root_path_finalized(drv.node)
    /\ drv.pc = "cleanup"
          => /\ outfd = NearestSuccess(drv.node)
             /\ task[outfd].status = "Success"
             /\ task[outfd].fd # -1

\* C3: the size of the returned file is the size a serial run returns, for
\* every interleaving, worker count and kMaxUnprocessed.
C3_SizeIsSerial ==
    drv.pc = "cleanup" => task[outfd].size = SerialSize

\* The side of the parent that the task being attached goes to.
AttachSlot ==
    IF drv.place # 0 THEN g_node_success(drv.node) = drv.place ELSE drv.slot

\* C4: a task attached in the success slot of p was computed from p as a
\* Success (state not advanced, source p), one attached in the failure slot
\* from p as not Success (state advanced, source a proper ancestor of p).
C4_SlotMatchesComputation ==
    ( /\ cfg.strategy = "bisect"
      /\ \/ drv.pc = "insert"
         \/ drv.pc = "attach" /\ drv.place # 0 )
    => LET p == task[drv.node]
           st == [ offset |-> drv.offset, chunksize |-> drv.chunksize ]
       IN IF AttachSlot
          THEN /\ st = BisectState(p, "Success")
               /\ drv.source = drv.node
          ELSE /\ st = BisectState(p, "Failure")
               /\ g_node_is_ancestor(drv.source, drv.node)

\* C5: while a strategy reads its source, the source is Success, lies on the
\* path from the node to the root, is the nearest such task, and has its fd
\* open.
C5_SourceIsNearestSuccess ==
    drv.pc \in {"pread", "build"} =>
        /\ task[drv.source].status = "Success"
        /\ drv.source = drv.node \/ g_node_is_ancestor(drv.source, drv.node)
        /\ drv.source = NearestSuccess(drv.node)
        /\ task[drv.source].fd # -1

\* Task f has been handed to the cleanup pool and not yet been through it.
InCleanup(f) ==
    \/ \E i \in DOMAIN cleanup : cleanup[i] = f
    \/ \E g \in Cleaners : gc[g].pc # "idle" /\ gc[g].task = f

\* The worker that ran n has finished with it, sweep included.
SweepOver(n) ==
    \A w \in Workers : worker[w].node = n => worker[w].pc \notin {"lock", "run", "sweep"}

\* C6: once N is Success and its sweep is over, every task under N's failure
\* slot has been enqueued to the cleanup pool (a task that was enqueued is in
\* the pool, or has been through it and is then not Pending).
C6_FailureSubtreeSwept ==
    \A n \in DOMAIN task :
        ( /\ n \notin {tree, retired}
          /\ task[n].status = "Success"
          /\ SweepOver(n)
          /\ ~G_NODE_IS_LEAF(n) )
        => LET under == AbortTasks(gnode, g_node_failure(n))
           IN \A i \in DOMAIN under :
                 task[under[i]].status = "Pending" => InCleanup(under[i])


\* ---------------------------------------------------------------- C1
\* C1: under fair scheduling build_bisection_tree returns: it reaches the
\* finalized state and returns true (or returns false on a root that fails
\* verification); neither the backpressure wait, nor the delay loop, nor a
\* lock keeps it forever.
C1_DriverReturns == <>(drv.pc \in {"done", "failed"})

\* The driver has returned true after speculative work was discarded.
C1_Witness ==
    /\ drv.pc = "done"
    /\ outfd # 0
    /\ \E n \in DOMAIN task : task[n].status = "Discarded"

\* ---------------------------------------------------------------- C11
\* Worker w is running the test program on its task.
Running(w) == worker[w].pc = "run"

\* C11, as it holds: a worker keeps the mutex of its task from before the
\* test program starts until the result is recorded, so a task that is swept
\* or retired while its test program runs is never Discarded: when the program
\* returns the worker records Failure if the cleanup's signal killed the
\* child, else Success or Failure by the exit code.  A Discarded task never
\* ran.
C11_RunningIsRecorded ==
    /\ [](\A n \in DOMAIN task : task[n].status = "Discarded" => ~task[n].timer)
    /\ [][ \A w \in Workers :
             (Running(w) /\ ~Running(w)') =>
                 LET n == worker[w].node
                 IN /\ task[n].status = "Pending"
                    /\ task'[n].status =
                          IF task[n].child = "killed" \/ ~Pred(cfg.pred, task[n].data)
                          THEN "Failure" ELSE "Success" ]_vars

\* A task that the test program accepts was killed while it ran and is
\* recorded as a Failure.
C11_Witness ==
    \E n \in DOMAIN task :
        /\ task[n].status = "Failure"
        /\ Pred(cfg.pred, task[n].data)

\* C11, as stated: a worker whose task was handed to the cleanup pool while
\* the test program ran leaves it Discarded, without Success or Failure.
C11_RunningFoundDiscarded ==
    [][ \A w \in Workers :
          (Running(w) /\ InCleanup(worker[w].node) /\ ~Running(w)') =>
              task'[worker[w].node].status = "Discarded" ]_vars

\* ---------------------------------------------------------------- C12
\* Worker w has finished handling its task in this step.
Finishes(w) == worker[w].pc # "idle" /\ worker'[w].pc = "idle"

\* C12: whenever a worker finishes handling a task (Success or Failure
\* recorded, or a task found Discarded dropped) it signals treecond, so that a
\* driver waiting on backpressure is woken by a signal; and a task found
\* Discarded at pick-up is dropped without a child process being spawned.
C12_FinishSignals ==
    [][ \A w \in Workers :
          Finishes(w) =>
              /\ drv.pc = "wait" => drv'.signal
              /\ task[worker[w].node].status = "Discarded" =>
                    /\ task'[worker[w].node].child = "none"
                    /\ task'[worker[w].node].childpid = 0 ]_vars

\* ---------------------------------------------------------------- C13
Threads ==
    {<<"driver", 0>>} \cup { <<"worker", w>> : w \in Workers }
                      \cup { <<"gc", g>> : g \in Cleaners }

NoThread == <<"none", 0>>

\* The thread that holds the mutex of task n: the thread that runs
\* process_execute_jobs on it (a pool thread, or the driver verifying the
\* root), or the cleanup thread inside cleanup_orphaned_tasks.
MutexHolder(n) ==
    IF task[n].mutex = "worker"
    THEN IF \E w \in Workers : worker[w].node = n /\ worker[w].pc \in {"run", "sweep"}
         THEN <<"worker", CHOOSE w \in Workers :
                             worker[w].node = n /\ worker[w].pc \in {"run", "sweep"}>>
         ELSE <<"driver", 0>>
    ELSE IF task[n].mutex = "gc"
    THEN <<"gc", CHOOSE g \in Cleaners : gc[g].task = n /\ gc[g].pc = "clean">>
    ELSE NoThread

\* The thread t holds some task mutex.
HoldsTaskMutex(t) == \E n \in DOMAIN task : MutexHolder(n) = t

\* The thread t is at a g_mutex_lock(&treelock).
RequestsTreelock(t) ==
    \/ t[1] = "driver" /\ drv.pc \in {"top", "wait", "output", "cleanup"}
    \/ t[1] = "worker" /\ worker[t[2]].pc = "sweep"

\* The thread that t waits for: the holder of the lock t is about to take.
WaitsFor(t) ==
    IF RequestsTreelock(t)
    THEN IF treelock = "driver" THEN <<"driver", 0>> ELSE NoThread
    ELSE IF t[1] = "driver" /\ drv.pc = "build" THEN MutexHolder(drv.source)
    ELSE IF t[1] = "worker" /\ worker[t[2]].pc = "lock" THEN MutexHolder(worker[t[2]].node)
    ELSE IF t[1] = "gc" /\ gc[t[2]].pc = "lock" THEN MutexHolder(gc[t[2]].task)
    ELSE NoThread

\* Following the wait-for relation from t for k steps comes back to goal.
RECURSIVE WaitCycle(_, _, _)
WaitCycle(t, goal, k) ==
    /\ k > 0
    /\ WaitsFor(t) # NoThread
    /\ \/ WaitsFor(t) = goal
       \/ WaitCycle(WaitsFor(t), goal, k - 1)

\* C13: no thread is at a lock of treelock while it holds a task mutex, the
\* cleanup threads leave treelock alone, the sweep changes no task (it takes
\* no task mutex), and the wait-for relation over treelock and the task
\* mutexes has no cycle.
C13_NoLockCycle ==
    /\ [](\A t \in Threads : RequestsTreelock(t) => ~HoldsTaskMutex(t))
    /\ [](\A t \in Threads : ~WaitCycle(t, t, Cardinality(Threads)))
    /\ [][ /\ gc' # gc => treelock' = treelock
           /\ \A w \in Workers :
                 (worker[w].pc = "sweep" /\ worker'[w].pc # "sweep") => task' = task ]_vars

\* A worker is at the sweep, waiting for treelock which the driver holds,
\* while the driver is about to lock the mutex of its source and a cleanup
\* thread holds a mutex: every lock is in use and nothing waits in a circle.
C13_Witness ==
    /\ \E w \in Workers : worker[w].pc = "sweep" /\ WaitsFor(<<"worker", w>>) = <<"driver", 0>>
    /\ drv.pc = "build"
    /\ \E n \in DOMAIN task : task[n].mutex # "free"

\* ---------------------------------------------------------------- C14
\* The step is one of collapse_finalized_failure_paths.
Compressing == drv.pc \in {"collapse", "collapsefinal"} /\ drv' # drv

\* Node n is in the retired tree.
Retired(n) == g_node_is_ancestor(retired, n)

\* C14: every node that compression moves to the retired tree, and every task
\* it pushes to the cleanup pool, has status Failure or Discarded or is an
\* empty placeholder; a Success task is never retired.
C14_RetiresOnlyFailures ==
    [][ Compressing =>
          /\ \A n \in DOMAIN gnode :
                (Retired(n)' /\ ~Retired(n)) =>
                    task[n].status \in {"Failure", "Discarded", "NULL"}
          /\ \A i \in (Len(cleanup) + 1)..Len(cleanup') :
                task[cleanup'[i]].status \in {"Failure", "Discarded"} ]_vars

\* ---------------------------------------------------------------- C15
\* C15: a task becomes Success exactly when its child process exited normally
\* with code 0; a non-zero exit code, a death by signal (the watchdog's SIGALRM
\* and the cleanup's signal included) or a core dump makes it Failure.
C15_SuccessIffExitZero ==
    [][ \A n \in DOMAIN task :
          ( /\ task[n].child \in {"running", "killed", "alarmed"}
            /\ task'[n].child = "zombie" ) =>
              /\ task[n].status = "Pending"
              /\ task'[n].status =
                    IF waitid(n) = [ si_code |-> "CLD_EXITED", si_status |-> 0 ]
                    THEN "Success" ELSE "Failure"
              /\ waitid(n).si_code \in {"CLD_KILLED", "CLD_DUMPED"}
                    => task'[n].status = "Failure" ]_vars

\* Tasks have ended in every way: one exited with 0 and is Success, one
\* dumped core, one exited with a code other than 0 and 1; all were run.
C15_Witness ==
    \E a, b, c \in DOMAIN task :
        /\ a # tree /\ task[a].status = "Success" /\ task[a].child # "none"
        /\ task[b].status = "Failure" /\ task[b].child # "none"
        /\ Program(cfg.pred, task[b].data).si_code = "CLD_DUMPED"
        /\ task[c].status = "Failure" /\ task[c].child # "none"
        /\ Program(cfg.pred, task[c].data).si_status = 3

\* ---------------------------------------------------------------- C16
\* C16: with a timeout, a watchdog that stops while the child still runs has
\* sent SIGALRM, once, to the child's process group, and then it is done; the
\* thread that runs the task does not classify it at the alarm: it keeps the
\* task Pending and locked until the child has ended.
C16_WatchdogAlarmsOnce ==
    /\ [](\A n \in DOMAIN task :
             /\ Len(task[n].alarm) <= 1
             /\ task[n].alarm # <<>> =>
                   task[n].alarm = <<"pgrp">> /\ task[n].watchdog = "done")
    /\ [][ \A n \in DOMAIN task :
             /\ ( /\ task[n].watchdog = "armed" /\ task'[n].watchdog = "done"
                  /\ task'[n].child # "zombie" )
                => ( /\ Alive(task[n])
                     /\ task'[n].alarm = <<"pgrp">>
                     /\ task'[n].status = "Pending"
                     /\ task'[n].mutex = "worker" )
             /\ ( task[n].status = "Pending" /\ task'[n].status \in {"Success", "Failure"} )
                => task'[n].child = "zombie" ]_vars

\* The deadline has passed for a running child that handles SIGALRM: the
\* alarm was sent, the watchdog is done, and the worker still waits for the
\* child with the task Pending.
C16_Witness ==
    \E w \in Workers :
        /\ worker[w].pc = "run"
        /\ task[worker[w].node].child = "alarmed"
        /\ Alive(task[worker[w].node])
        /\ task[worker[w].node].alarm = <<"pgrp">>
        /\ task[worker[w].node].status = "Pending"

\* ---------------------------------------------------------------- C17
\* C17: when build_bisection_tree has returned true, every task is a node of
\* the live or of the retired tree, its fd is -1 and its childpid 0, and the
\* child of every task that spawned one has ended and has been reaped; a
\* reaped child is reaped once, by a waitpid on a zombie whose pid the task
\* still holds.
C17_AllReaped ==
    /\ [](drv.pc = "done" =>
             \A n \in DOMAIN task : HasTask(n) =>
                 /\ InTree(tree, n) \/ InTree(retired, n)
                 /\ task[n].fd = -1
                 /\ task[n].childpid = 0
                 /\ task[n].child \in {"none", "reaped"}
                 /\ ( /\ task[n].status \in {"Success", "Failure"}
                      /\ n # tree \/ cfg.kVerifyInput ) => task[n].child = "reaped")
    /\ [][ \A n \in DOMAIN task :
             /\ task[n].child = "reaped" => task'[n].child = "reaped"
             /\ (task[n].child # "reaped" /\ task'[n].child = "reaped")
                => (task[n].child = "zombie" /\ task[n].childpid > 0 /\ task'[n].childpid = 0)
             /\ (task[n].childpid > 0 /\ task'[n].childpid = 0)
                => task'[n].child = "reaped" ]_vars

\* The driver has returned true with reaped children in both trees: a
\* successful candidate of the live tree and a task of the retired tree.
C17_Witness ==
    /\ drv.pc = "done"
    /\ \E n \in DOMAIN task :
          /\ n # tree /\ InTree(tree, n)
          /\ task[n].status = "Success" /\ task[n].child = "reaped"
    /\ \E n \in DOMAIN task :
          /\ InTree(retired, n) /\ task[n].child = "reaped"
    /\ \E n \in DOMAIN task :
          /\ task[n].status = "Discarded" /\ task[n].child = "none"

C19_OutputNoLarger ==
    outfd # 0 =>
        /\ task[outfd].size <= Len(cfg.input)
        /\ Len(task[outfd].data) = task[outfd].size
        /\ task[outfd].status = "Success"

\* The returned blob is strictly smaller than the input, and the run had
\* more than one worker busy at a time before it.
C19_Witness ==
    /\ outfd # 0
    /\ outfd # tree
    /\ task[outfd].size < Len(cfg.input)
    /\ cfg.kMaxUnprocessed > 0

\* ---------------------------------------------------------------- C20
\* C20: a non-root Success of the live tree is no larger than its nearest
\* Success ancestor, and it is strictly smaller than the root once the
\* chunksize has been halved at least once.
C20_SizesShrink ==
    \A n \in DOMAIN task :
        ( /\ n # tree /\ InTree(tree, n)
          /\ task[n].status = "Success" ) =>
            /\ task[n].size <= task[NearestSuccess(gnode[n].parent)].size
            /\ task[n].chunksize < task[tree].chunksize =>
                  task[n].size < task[tree].size

\* C20: a candidate is built from a Success task that is its parent or an
\* ancestor of its parent, and it is no larger than that task: the bisect
\* strategy keeps the size only when the chunk lies past the end of the source,
\* the zero strategy always keeps it.  So no task is larger than the root, and
\* the recorded size of a task is the length of its contents.
C20_NoLargerThanSource ==
    /\ [](\A n \in DOMAIN task : HasTask(n) =>
             /\ task[n].size <= task[tree].size
             /\ Len(task[n].data) = task[n].size)
    /\ [][ (drv.pc = "build" /\ drv'.pc = "attach") =>
             LET c == drv'.child
                 s == task[drv.source]
             IN /\ s.status = "Success"
                /\ drv.source = drv.node \/ g_node_is_ancestor(drv.source, drv.node)
                /\ c.size <= s.size
                /\ Len(c.data) = c.size
                /\ cfg.strategy = "zero" => c.size = s.size
                /\ (cfg.strategy = "bisect" /\ c.size = s.size)
                      => drv.offset + drv.chunksize > s.size ]_vars

\* The zero strategy at a chunksize that has been halved: a Success other than
\* the root that has the root's size and not its contents.
C20_Witness ==
    /\ cfg.strategy = "zero"
    /\ \E n \in DOMAIN task :
          /\ n # tree /\ InTree(tree, n)
          /\ task[n].status = "Success"
          /\ task[n].chunksize < task[tree].chunksize
          /\ task[n].size = task[tree].size
          /\ task[n].data # task[tree].data

\* ---------------------------------------------------------------- C21
\* C21: the output of a run with --stable is a fixed point: a further cycle
\* of all strategies on it, with the same test program, gives an output of
\* the same size.
C21_StableIsFixedPoint ==
    (cfg.pc = "EXIT_SUCCESS" /\ ~cfg.kIterateUntilStable) => Len(cfg.output) = cfg.first

\* ---------------------------------------------------------------- C22
\* C22: when the test program accepts the empty file, the blob a bisect run
\* returns has zero bytes.
C22_EmptyResult ==
    ( /\ cfg.strategy = "bisect"
      /\ Pred(cfg.pred, <<>>)
      /\ outfd # 0 ) => task[outfd].size = 0

\* ---------------------------------------------------------------- C23
\* C23: with an input of size 0 no task is ever generated, attached or
\* enqueued: the tree stays the root alone, and the blob the driver returns
\* is the root's.
C23_EmptyInput ==
    /\ [](cfg.input = <<>> =>
             /\ Len(task) = 2
             /\ G_NODE_IS_LEAF(tree)
             /\ threadpool = <<>>
             /\ drv.child = NullTask
             /\ \A w \in Workers : worker[w].pc = "idle"
             /\ outfd \in {0, tree}
             /\ drv.pc = "done" => outfd = tree)
    /\ [][ (cfg.input = <<>> /\ drv.pc = "strategy") => drv'.pc = "nochild" ]_vars

\* The driver has returned the root's blob for an empty input that was
\* verified.
C23_Witness ==
    /\ cfg.input = <<>>
    /\ cfg.kVerifyInput
    /\ drv.pc = "done"
    /\ outfd = tree
    /\ task[tree].child = "reaped"

\* ---------------------------------------------------------------- C24
\* Node t is reached from node c by the rule of the walk: from a task node
\* that is not a leaf, to the success child when the status is Success and to
\* the failure child otherwise.
RECURSIVE Follows(_, _)
Follows(c, t) ==
    \/ c = t
    \/ /\ c # 0
       /\ HasTask(c)
       /\ ~G_NODE_IS_LEAF(c)
       /\ Follows(IF task[c].status = "Success" THEN g_node_success(c)
                  ELSE g_node_failure(c), t)

\* C24: a walk starts at the root when the driver has taken the tree lock; a
\* step of the walk follows the rule, never fails the assertion on a
\* Discarded task, and ends the walk only at an empty placeholder or at a
\* leaf.
C24_WalkFollowsStatus ==
    [][ /\ (drv.pc \in {"top", "wait"} /\ drv'.pc = "walk") => drv'.current = tree
        /\ (drv.pc = "walk" /\ drv' # drv) =>
              /\ Follows(drv.current, drv'.current)
              /\ drv'.pc \in {"walk", "strategy"}
              /\ HasTask(drv'.current) => task[drv'.current].status # "Discarded"
              /\ drv'.pc = "strategy" =>
                    \/ ~HasTask(drv'.current) /\ drv'.place = drv'.current
                    \/ G_NODE_IS_LEAF(drv'.current) /\ drv'.node = drv'.current ]_vars

\* A walk has ended at the empty placeholder under a task other than the root
\* that succeeded, in a run in which speculative work was discarded.
C24_Witness ==
    /\ drv.pc = "strategy"
    /\ drv.place # 0
    /\ drv.node # tree
    /\ task[drv.node].status = "Success"
    /\ \E n \in DOMAIN task : task[n].status = "Discarded"

\* ---------------------------------------------------------------- C25
\* C25: when the strategy has returned a task for a leaf, the driver, holding
\* the tree lock, reads the leaf's status once and then gives the leaf exactly
\* two new children: the task in the success slot (index 1) when the status
\* read was Success and in the failure slot (index 0) otherwise, an empty
\* placeholder in the other slot; the task, and nothing else, is enqueued, and
\* no other node changes.
C25_LeafGetsTwoChildren ==
    [][ /\ (drv.pc = "attach" /\ drv'.pc = "insert") =>
              /\ treelock = "driver"
              /\ HasTask(drv.node) /\ G_NODE_IS_LEAF(drv.node)
              /\ drv'.slot = (task[drv.node].status = "Success")
        /\ (drv.pc = "insert" /\ drv'.pc # "insert") =>
              LET p == drv.node
                  kids == gnode'[p].children
                  real == kids[IF drv.slot THEN 2 ELSE 1]
                  empty == kids[IF drv.slot THEN 1 ELSE 2]
              IN /\ treelock = "driver"
                 /\ G_NODE_IS_LEAF(p)
                 /\ Len(kids) = 2
                 /\ {real, empty} = DOMAIN gnode' \ DOMAIN gnode
                 /\ real # empty
                 /\ task'[real] = drv.child
                 /\ task'[real].status = "Pending"
                 /\ task'[empty] = NullTask
                 /\ gnode'[real] = [ parent |-> p, children |-> <<>> ]
                 /\ gnode'[empty] = [ parent |-> p, children |-> <<>> ]
                 /\ gnode'[p].parent = gnode[p].parent
                 /\ \A m \in DOMAIN gnode : m # p => gnode'[m] = gnode[m]
                 /\ \A m \in DOMAIN task : task'[m] = task[m]
                 /\ threadpool' = Append(threadpool, real) ]_vars

\* A leaf that had succeeded has its task in the success slot, and a leaf that
\* was pending has its task in the failure slot, each with an empty
\* placeholder in the other slot.
C25_Witness ==
    \E p, q \in DOMAIN task :
        /\ HasTask(p) /\ HasTask(q) /\ p # tree /\ InTree(tree, p) /\ InTree(tree, q)
        /\ ~G_NODE_IS_LEAF(p) /\ ~G_NODE_IS_LEAF(q)
        /\ task[p].status = "Success"
        /\ HasTask(g_node_success(p)) /\ ~HasTask(g_node_failure(p))
        /\ task[q].status = "Pending"
        /\ HasTask(g_node_failure(q)) /\ ~HasTask(g_node_success(q))

\* ---------------------------------------------------------------- C26
\* The child's state for a parent with state (o, c), size s, whose status
\* counts as Success or not.
TableState(o, c, s, success) ==
    IF o + c > s THEN [ offset |-> 0, chunksize |-> c \div 2 ]
    ELSE IF success THEN [ offset |-> o, chunksize |-> c ]
    ELSE [ offset |-> o + c, chunksize |-> c ]

\* The states the parent p allows for a child: under bisect the status may
\* have been read as Success or not, under zero it does not count.
TableStates(p) ==
    { TableState(p.offset, p.chunksize, p.size, success) :
        success \in IF cfg.strategy = "bisect" THEN BOOLEAN ELSE {FALSE} }

\* The state the strategy first computes is that of the table, with the
\* parent's status at that moment, and a chunksize of 0 ends the strategy
\* without a task.
ProposalIsTable ==
    (drv.pc = "strategy" /\ drv' # drv) =>
        LET p == task[drv.node]
            t == TableState(p.offset, p.chunksize, p.size,
                            cfg.strategy = "bisect" /\ p.status = "Success")
        IN /\ drv'.offset = t.offset
           /\ drv'.chunksize = t.chunksize
           /\ (drv'.pc = "nochild") = (t.chunksize = 0)

\* C26 as stated: the state of every task the strategy returns is that of the
\* table.
C26_ChildStateIsTable ==
    [][ /\ ProposalIsTable
        /\ (drv.pc = "build" /\ drv'.pc = "attach") =>
              [ offset |-> drv'.child.offset, chunksize |-> drv'.child.chunksize ]
                  \in TableStates(task[drv.node]) ]_vars

\* State b is state a after at most k skips of the zero strategy for a parent
\* of size s.
RECURSIVE Skipped(_, _, _, _)
Skipped(a, b, s, k) ==
    \/ a = b
    \/ /\ k > 0
       /\ a.chunksize # 0
       /\ Skipped(ZeroAdvance(a.offset, a.chunksize, s), b, s, k - 1)

\* C26: the state the strategy first computes for a child is that of the
\* table, and a chunksize of 0 ends the strategy without a task.  Under
\* bisect it is the state of the task returned; under zero the task returned
\* has that state or one that follows it by skips (offset advanced by
\* chunksize, next cycle past the end).  No task has a chunksize of 0.
C26_ProposalIsTable ==
    [][ /\ ProposalIsTable
        /\ (drv.pc = "build" /\ drv'.pc = "attach") =>
              LET p == task[drv.node]
                  c == [ offset |-> drv'.child.offset, chunksize |-> drv'.child.chunksize ]
              IN /\ c.chunksize # 0
                 /\ cfg.strategy = "bisect" => c \in TableStates(p)
                 /\ cfg.strategy = "zero" =>
                       \E t \in TableStates(p) :
                           Skipped(t, c, p.size, (p.size + 2) * (p.size + 2)) ]_vars

\* The zero strategy has returned a task whose state is not that of the table
\* for its parent: chunks were skipped.
C26_Witness ==
    /\ cfg.strategy = "zero"
    /\ drv.pc = "attach"
    /\ [ offset |-> drv.child.offset, chunksize |-> drv.child.chunksize ]
          \notin TableStates(task[drv.node])

\* ---------------------------------------------------------------- C27
\* The bytes of S but for those at the (0-based) positions offset ..
\* offset + chunksize - 1, in the order S has them.
WithoutChunk(S, offset, chunksize) ==
    [ i \in 1..(Len(S) - Min(chunksize, Len(S) - offset)) |->
        S[IF i <= offset THEN i ELSE i + chunksize] ]

\* C27: the candidate the bisect strategy builds from the source S with
\* state (offset, chunksize) is S[0, offset) followed by
\* S[offset + chunksize, |S|), of size |S| - min(chunksize, |S| - offset).
C27_BisectContent ==
    [][ (cfg.strategy = "bisect" /\ drv.pc = "build" /\ drv'.pc = "attach") =>
           LET S == task[drv.source].data
               c == drv'.child
           IN /\ c.offset <= Len(S)
              /\ c.data = WithoutChunk(S, c.offset, c.chunksize)
              /\ c.size = Len(S) - Min(c.chunksize, Len(S) - c.offset)
              /\ Len(c.data) = c.size ]_vars

\* A candidate has been built by removing a chunk from the middle of its
\* source: bytes before and bytes after the chunk are kept.
C27_Witness ==
    /\ cfg.strategy = "bisect"
    /\ drv.pc = "attach"
    /\ drv.child.offset > 0
    /\ drv.child.offset + drv.child.chunksize < task[drv.source].size
    /\ drv.child.data = WithoutChunk(task[drv.source].data,
                                     drv.child.offset, drv.child.chunksize)

\* ---------------------------------------------------------------- C28
\* C28: the candidate the zero strategy builds from the source S with state
\* (offset, chunksize) has the size of S, equals S at every position outside
\* [offset, offset + chunksize) and holds the zero character at every
\* position of that range inside the file, whatever --zero-char is.
C28_ZeroContent ==
    [][ (cfg.strategy = "zero" /\ drv.pc = "build" /\ drv'.pc = "attach") =>
           LET S == task[drv.source]
               c == drv'.child
           IN /\ c.size = S.size
              /\ Len(c.data) = Len(S.data)
              /\ \A i \in 1..Len(S.data) :
                    c.data[i] = IF i - 1 >= c.offset /\ i - 1 < c.offset + c.chunksize
                                THEN cfg.kZeroCharacter
                                ELSE S.data[i] ]_vars

\* A candidate has been built with a non-zero zero character: it holds that
\* character where its source has another byte, and a byte of the source
\* elsewhere.
C28_Witness ==
    /\ cfg.strategy = "zero"
    /\ cfg.kZeroCharacter # 0
    /\ drv.pc = "attach"
    /\ \E i, j \in 1..Len(drv.child.data) :
          /\ drv.child.data[i] = cfg.kZeroCharacter
          /\ task[drv.source].data[i] # cfg.kZeroCharacter
          /\ i - 1 >= drv.child.offset
          /\ (j - 1 < drv.child.offset \/ j - 1 >= drv.child.offset + drv.child.chunksize)
          /\ drv.child.data[j] = task[drv.source].data[j]

\* ---------------------------------------------------------------- C29
\* C29 as stated: no candidate of the zero strategy has the bytes of its
\* source.
C29_NeverIdentical ==
    [][ (cfg.strategy = "zero" /\ drv.pc = "build" /\ drv'.pc = "attach") =>
           drv'.child.data # task[drv.source].data ]_vars

\* ---------------------------------------------------------------- C30
\* The node at which the scan of build_bisection_tree from n ends in the links
\* g: the first placeholder or leaf on the way that the statuses give.
RECURSIVE WalkEnd(_, _)
WalkEnd(g, n) ==
    IF n = 0 \/ ~HasTask(n) \/ g[n].children = <<>> THEN n
    ELSE LET i == IF task[n].status = "Success" THEN 2 ELSE 1
         IN WalkEnd(g, IF i <= Len(g[n].children) THEN g[n].children[i] ELSE 0)

\* The step is the last of a pass of collapse_finalized_failure_paths.
PassEnds == drv.pc = "collapsefinal" /\ drv'.pc = "walk"

\* The final nodes are in place: the deepest finalized Success node is the
\* root or its success child, the deepest finalized node is that node, its
\* success child or a child of its success child.
FinalNodesInPlace ==
    LET fs == find_finalized_node(tree, TRUE)
        fn == find_finalized_node(tree, FALSE)
    IN /\ fs \in { tree, g_node_success(tree) }
       /\ \/ fn \in { fs, g_node_success(fs) }
          \/ gnode[fn].parent = g_node_success(fs)

\* A step of the pass leaves the subtree of the deepest finalized node as it
\* was, and the scan from the root ends where it did.
SubtreeKept ==
    LET fn == find_finalized_node(tree, FALSE)
    IN /\ \A n \in DOMAIN gnode :
             InTree(fn, n) => gnode'[n].children = gnode[n].children
       /\ WalkEnd(gnode', tree) = WalkEnd(gnode, tree)

\* C30: when a pass of collapse_finalized_failure_paths ends, the final nodes
\* are in place; no step of the pass changes the subtree of the deepest
\* finalized node or the node at which the driver's scan ends.
C30_PassPostcondition ==
    [][ /\ PassEnds => FinalNodesInPlace'
        /\ (Compressing /\ drv'.pc # "abort") => SubtreeKept ]_vars

\* ---------------------------------------------------------------- C31
\* C31: whenever cleanup_orphaned_tasks holds a task's mutex and finds
\* childpid > 0, the child has ended and has not been reaped, so that
\* waitpid(childpid, WNOHANG) returns childpid; this holds for the cleanup
\* pool and for the cleanup_tree of the driver.
C31_WaitpidFindsZombie ==
    [][ /\ \A g \in Cleaners :
              (gc[g].pc = "clean" /\ gc'[g].pc = "idle"
                  /\ task[gc[g].task].childpid > 0) =>
                  /\ task[gc[g].task].mutex = "gc"
                  /\ task[gc[g].task].child = "zombie"
                  /\ task'[gc[g].task].child = "reaped"
        /\ (drv.pc = "cleanup" /\ drv'.pc = "done") =>
              \A n \in DOMAIN task :
                  (HasTask(n) /\ task[n].childpid > 0 /\ task'[n].childpid = 0) =>
                      task[n].child = "zombie" ]_vars

\* A cleanup thread holds the mutex of a failed task whose childpid is set and
\* whose child is a zombie.
C31_Witness ==
    \E g \in Cleaners :
        /\ gc[g].pc = "clean"
        /\ task[gc[g].task].childpid > 0
        /\ task[gc[g].task].mutex = "gc"
        /\ task[gc[g].task].status = "Failure"
        /\ task[gc[g].task].child = "zombie"

\* ---------------------------------------------------------------- C32
\* C32: the cleanup thread never signals a process group whose leader has
\* been reaped: when it sends the signal, the childpid it has read names a
\* child that has not been reaped, also when the task was pushed to the
\* cleanup pool more than once.
C32_NeverSignalsReaped ==
    [][ \A g \in ReapCleaners :
           (gc[g].pc = "kill" /\ gc'[g].pc = "lock"
               /\ kKillFailedWorkers /\ gc[g].childpid > 0) =>
               task[gc[g].task].child # "reaped" ]_vars

\* ---------------------------------------------------------------- C33
\* C33: when the child ends before the deadline, the watchdog ends without
\* sending SIGALRM and the worker's join does not last to the deadline: the
\* step in which the worker collects a child that the watchdog has not
\* signalled sends no SIGALRM.
C33_NoAlarmAfterExit ==
    [][ \A n \in DOMAIN task :
           (task[n].watchdog = "armed" /\ task'[n].child = "zombie") =>
               /\ task'[n].watchdog = "done"
               /\ task'[n].alarm = task[n].alarm ]_vars

\* ---------------------------------------------------------------- C34
\* C34: the thread that records a task's Failure pushes the task to the
\* cleanup pool in the same step; a Failure task whose fd is open is in the
\* cleanup pool or with a cleanup thread, and in the end every Failure task has
\* fd = -1; the strategies read candidate data only from a task whose status
\* is Success.
C34_FailureIsCleaned ==
    /\ [][ \A n \in DOMAIN task :
              (task[n].status # "Failure" /\ task'[n].status = "Failure") =>
                  /\ Len(cleanup') = Len(cleanup) + 1
                  /\ cleanup'[Len(cleanup')] = n ]_vars
    /\ [](\A n \in DOMAIN task :
              (task[n].status = "Failure" /\ task[n].fd # -1) => InCleanup(n))
    /\ <>[](\A n \in DOMAIN task : task[n].status = "Failure" => task[n].fd = -1)
    /\ [][ (drv.pc \in {"pread", "build"} /\ drv' # drv) =>
              task[drv.source].status = "Success" ]_vars

\* A failed task has been cleaned up by the cleanup pool while the driver is
\* at work, and a candidate has been built below it from another task.
C34_Witness ==
    /\ drv.pc = "attach"
    /\ task[drv.node].status = "Failure"
    /\ task[drv.node].fd = -1
    /\ drv.source # drv.node
    /\ task[drv.source].status = "Success"

\* ---------------------------------------------------------------- C35
\* C35: when the strategy returns no task for a leaf whose path to the root
\* is finalized, the worker pool holds no unprocessed task: the assertion of
\* lines 249-251 holds and the driver goes to finalized.
C35_PoolEmptyAtFinalLeaf ==
    /\ []( ( /\ drv.pc = "nochild"
             /\ drv.place = 0
             /\ root_path_finalized(drv.node) ) => g_thread_pool_unprocessed = 0 )
    /\ [][ ( /\ drv.pc = "nochild"
             /\ drv.place = 0
             /\ root_path_finalized(drv.node)
             /\ drv' # drv ) => drv'.pc = "finalized" ]_vars

\* The strategy has returned no task for a leaf below the root whose path is
\* finalized, after tasks were pushed to the pool that ended up discarded.
C35_Witness ==
    /\ drv.pc = "nochild"
    /\ drv.place = 0
    /\ drv.node # tree
    /\ root_path_finalized(drv.node)
    /\ \E n \in DOMAIN task : task[n].status = "Discarded"

\* ---------------------------------------------------------------- C36
\* Node n gets its task in the step.
Attached(n) == HasTask(n)' /\ (n \notin DOMAIN task \/ ~HasTask(n))

\* C36: a node other than the root is pushed to the worker pool in the step
\* in which it gets its task and in no other step, and it keeps its task; a
\* worker that has locked a task finds it Discarded, or Pending with no timer
\* and childpid = 0, and a timer once set stays, so that no task is run
\* twice.
C36_PushedAndRunOnce ==
    [][ /\ \A n \in DOMAIN task' :
              (n # tree /\ Attached(n)) => threadpool' = Append(threadpool, n)
        /\ Len(threadpool') > Len(threadpool) =>
              \E n \in DOMAIN task' :
                  n # tree /\ Attached(n) /\ threadpool' = Append(threadpool, n)
        /\ \A n \in DOMAIN task :
              /\ HasTask(n) => HasTask(n)'
              /\ task[n].timer => task'[n].timer
              /\ (task[n].child # "running" /\ task'[n].child = "running") =>
                    ~task[n].timer /\ task[n].childpid = 0 /\ task[n].status = "Pending"
        /\ \A w \in Workers :
              (worker[w].pc = "lock" /\ worker'[w].pc # "lock") =>
                  LET t == task[worker[w].node]
                  IN /\ \/ t.status = "Discarded"
                        \/ t.status = "Pending" /\ ~t.timer /\ t.childpid = 0
                     /\ worker'[w].pc # "abort" ]_vars

\* A worker has locked a task that was discarded before it could run, while
\* another task has been run.
C36_Witness ==
    \E w \in Workers :
        /\ worker[w].pc = "lock"
        /\ task[worker[w].node].status = "Discarded"
        /\ \E n \in DOMAIN task : n # tree /\ task[n].timer /\ task[n].child = "zombie"

\* ---------------------------------------------------------------- C37
\* The driver is past both g_thread_pool_free calls of lines 314-315.
PoolsFreed == drv.pc \in { "output", "cleanup", "done" }

\* C37: once the driver has drained the worker pool and then the cleanup
\* pool, no task of the live or the retired tree is Pending, both pools are
\* empty with every thread idle, and from the moment the worker pool is
\* drained nothing is pushed to the cleanup pool any more.
C37_NoPendingAfterDrain ==
    /\ [](PoolsFreed =>
            /\ \A n \in DOMAIN task :
                  (HasTask(n) /\ (InTree(tree, n) \/ InTree(retired, n))) =>
                      task[n].status # "Pending"
            /\ NoPendingTask
            /\ threadpool = <<>> /\ cleanup = <<>>
            /\ \A w \in Workers : worker[w].pc = "idle"
            /\ \A g \in DOMAIN gc : gc[g].pc = "idle")
    /\ [][ (PoolsFreed \/ drv.pc = "freecleanup") =>
               /\ Len(cleanup') <= Len(cleanup)
               /\ threadpool' = threadpool ]_vars

\* The statistics pass is about to run over a live tree and a retired tree
\* that both hold tasks, one of them discarded.
C37_Witness ==
    /\ drv.pc = "output"
    /\ \E n \in DOMAIN task : n # tree /\ HasTask(n) /\ InTree(tree, n)
    /\ \E n \in DOMAIN task : n # retired /\ HasTask(n) /\ InTree(retired, n)
    /\ \E n \in DOMAIN task : task[n].status = "Discarded"

\* ---------------------------------------------------------------- C38
\* A pass of cleanup_orphaned_tasks over task n has completed: only line 376
\* gives a task the fd -1.
CleanedOnce(n) == HasTask(n) /\ task[n].fd = -1

\* The fields of a task that cleanup_orphaned_tasks writes, and its child.
SameResources(a, b) ==
    /\ a.status = b.status /\ a.fd = b.fd
    /\ a.childpid = b.childpid /\ a.child = b.child

\* C38: a task that has been cleaned up once has a final status and no
\* childpid and is never changed again, whoever cleans it up afterwards, and
\* cleaning it again would change nothing; a real fd is closed, and a child
\* reaped, only in a step that cleans the task for the first time.
C38_CleanupIdempotent ==
    /\ [](\A n \in DOMAIN task :
            /\ HasTask(n) => Discard(Discard(task[n])) = Discard(task[n])
            /\ CleanedOnce(n) => /\ task[n].status \in { "Success", "Failure", "Discarded" }
                             /\ task[n].childpid = 0
                             /\ Discard(task[n]) = task[n]
            /\ task[n].child = "reaped" => CleanedOnce(n))
    /\ [][ \A n \in DOMAIN task :
              /\ CleanedOnce(n) => SameResources(task'[n], task[n])
              /\ (HasTask(n) /\ task'[n].fd # task[n].fd) =>
                    ~CleanedOnce(n) /\ SameResources(task'[n], Discard(task[n]))
              /\ (task[n].child # "reaped" /\ task'[n].child = "reaped") =>
                    /\ ~CleanedOnce(n) /\ task[n].childpid > 0 /\ task[n].child = "zombie"
                    /\ SameResources(task'[n], Discard(task[n])) ]_vars

\* A cleanup thread holds the mutex of a task that was cleaned before, its
\* child reaped.
C38_Witness ==
    \E g \in Cleaners :
        /\ gc[g].pc = "clean"
        /\ CleanedOnce(gc[g].task)
        /\ task[gc[g].task].child = "reaped"

\* ---------------------------------------------------------------- C39
\* Node n is an empty placeholder, the g_node_new(NULL) of lines 262 and 275.
Placeholder(n) == n \in DOMAIN task /\ ~HasTask(n)

\* C39: every node of the live tree has no children or two; a placeholder
\* gets its task only as the success child of a parent whose status is
\* Success, and a placeholder that is a failure child never gets a task and
\* never becomes a success child.
C39_TwoChildrenOrNone ==
    /\ [](\A n \in DOMAIN gnode :
            InTree(tree, n) => Len(gnode[n].children) \in { 0, 2 })
    /\ [][ \A n \in DOMAIN task :
              LET p == gnode[n].parent IN
              /\ (Placeholder(n) /\ HasTask(n)') =>
                    /\ p # 0
                    /\ g_node_success(p) = n
                    /\ task[p].status = "Success"
              /\ (Placeholder(n) /\ p # 0 /\ g_node_failure(p) = n) =>
                    /\ ~HasTask(n)'
                    /\ gnode'[n].parent # 0 =>
                          gnode'[gnode'[n].parent].children[1] = n ]_vars

\* A placeholder in a success slot is about to get its task while another
\* node of the live tree has a placeholder as its failure child.
C39_Witness ==
    /\ drv.pc = "attach" /\ drv.place # 0
    /\ g_node_success(gnode[drv.place].parent) = drv.place
    /\ \E p \in DOMAIN gnode :
          /\ InTree(tree, p) /\ Len(gnode[p].children) = 2
          /\ Placeholder(g_node_failure(p))
          /\ task[p].status = "Success"

\* ---------------------------------------------------------------- C40
\* c and what repeated chunksize >>= 1 makes of it.
Halvings(c) == { c \div (2 ^ k) : k \in 0..c }

\* C40: the chunksize of every task that has a parent task is its parent's
\* chunksize or a repeated halving of it, in the live and in the retired
\* tree, before and after compression; and zero's scan never comes to a
\* Success ancestor whose chunksize is smaller than the candidate's.
C40_ChunksizeNeverGrows ==
    /\ \A n \in DOMAIN task :
          (HasTask(n) /\ ~G_NODE_IS_ROOT(n) /\ HasTask(gnode[n].parent)) =>
              /\ task[n].chunksize \in Halvings(task[gnode[n].parent].chunksize)
              /\ task[n].chunksize <= task[gnode[n].parent].chunksize
    /\ drv.pc = "skip" =>
          /\ ZeroSkip(drv.current, drv.offset, drv.chunksize).to # "abort"
          /\ \A a \in DOMAIN task :
                (HasTask(a) /\ a # tree /\ task[a].status = "Success"
                   /\ (a = drv.node \/ g_node_is_ancestor(a, drv.node))) =>
                    drv.chunksize <= task[a].chunksize

\* Zero's scan is at a Success task other than the root, deeper than the
\* root's success child, with a candidate chunk smaller than the root's.
C40_Witness ==
    /\ drv.pc = "skip"
    /\ drv.current # tree
    /\ gnode[drv.current].parent # tree
    /\ task[drv.current].status = "Success"
    /\ drv.chunksize < task[tree].chunksize
====
